---- MODULE Spec2Model ----
(***************************************************************************)
(* Invoice ingestion of the ET office portal.                              *)
(*                                                                         *)
(*   importer  src/unnamed/part_017  (streamed header pass, streamed line  *)
(*             pass, totals finalizer, batched commits with retry)         *)
(*   indexer   src/scripts/build_item_customer_index.mjs                   *)
(*                                                                         *)
(* Text is a sequence of one-character strings, so trimming, replacing,    *)
(* padding and concatenation are computed character by character.  Money   *)
(* is counted in hundredths.  A date is a day number.                      *)
(*                                                                         *)
(* Environment the source relies on (not code of the repository):          *)
(*  - Papa.parse calls config.step once per row and ignores what it        *)
(*    returns; an async step therefore runs up to its first pending await  *)
(*    and the parser goes on with the next row.                            *)
(*  - WriteBatch.commit() marks the batch committed when it is called;     *)
(*    WriteBatch.set() on a committed batch throws; commit() may be called *)
(*    again on the same batch and sends the same writes.                   *)
(*  - set(ref, data, {merge: true}) creates the document or overwrites     *)
(*    the given fields and keeps the others.                               *)
(***************************************************************************)
EXTENDS Integers, Sequences, FiniteSets, TLC

----------------------------------------------------------------------------
(* Text helpers *)

Digits == <<"0", "1", "2", "3", "4", "5", "6", "7", "8", "9">>

IsDigit(c) == \E i \in 1..10 : Digits[i] = c

DigitVal(c) == (CHOOSE i \in 1..10 : Digits[i] = c) - 1

\* String(n) for a natural number
RECURSIVE NumStr(_)
NumStr(n) == IF n < 10 THEN <<Digits[n + 1]>>
             ELSE NumStr(n \div 10) \o <<Digits[(n % 10) + 1]>>

\* Number(s) for a non-empty run of digits
RECURSIVE DigitsVal(_)
DigitsVal(s) == IF s = <<>> THEN 0
                ELSE 10 * DigitsVal(SubSeq(s, 1, Len(s) - 1)) + DigitVal(s[Len(s)])

AllDigits(s) == \A i \in 1..Len(s) : IsDigit(s[i])

\* s.replaceAll(a, b) for one-character a; b is a (possibly empty) text
RECURSIVE ReplaceAll(_, _, _)
ReplaceAll(s, a, b) ==
    IF s = <<>> THEN <<>>
    ELSE (IF Head(s) = a THEN b ELSE <<Head(s)>>) \o ReplaceAll(Tail(s), a, b)

\* the pieces of s between occurrences of the character sep
RECURSIVE SplitOn(_, _)
SplitOn(s, sep) ==
    IF \A i \in 1..Len(s) : s[i] # sep THEN <<s>>
    ELSE LET k == CHOOSE i \in 1..Len(s) :
                      s[i] = sep /\ \A j \in 1..(i - 1) : s[j] # sep
         IN <<SubSeq(s, 1, k - 1)>> \o SplitOn(SubSeq(s, k + 1, Len(s)), sep)

\* s.padStart(width, "0")
RECURSIVE PadStart(_, _)
PadStart(s, width) == IF Len(s) >= width THEN s ELSE PadStart(<<"0">> \o s, width)

----------------------------------------------------------------------------
(* Field normalisation: part_017 lines 43-70, 100-103, 277-281 *)

\* A column the row does not have (ciGet returns undefined)
Undefined == <<"undefined">>

RECURSIVE TrimLeft(_)
TrimLeft(s) == IF s # <<>> /\ Head(s) = " " THEN TrimLeft(Tail(s)) ELSE s

RECURSIVE TrimRight(_)
TrimRight(s) == IF s # <<>> /\ s[Len(s)] = " "
                THEN TrimRight(SubSeq(s, 1, Len(s) - 1)) ELSE s

cleanStr(v) == IF v = Undefined THEN <<>> ELSE TrimLeft(TrimRight(v))

\* ciGet(row, key); column names are held in their canonical spelling
ciGet(row, key) == IF key \in DOMAIN row THEN row[key] ELSE Undefined

\* a ?? b
Coalesce(a, b) == IF a = Undefined THEN b ELSE a

\* Number(t) in hundredths for [-]digits[.digits] with at most two decimals;
\* Number("") is 0; any other text is NaN (IsNumber is FALSE)
IsNumber(t) ==
    LET u  == IF t # <<>> /\ Head(t) = "-" THEN Tail(t) ELSE t
        ps == SplitOn(u, ".")
    IN \/ t = <<>>
       \/ /\ Len(ps) \in {1, 2}
          /\ \A i \in 1..Len(ps) : AllDigits(ps[i])
          /\ Len(ps) = 2 => Len(ps[2]) <= 2
          /\ Len(ps[1]) + (IF Len(ps) = 2 THEN Len(ps[2]) ELSE 0) > 0

NumberVal(t) ==
    LET neg == t # <<>> /\ Head(t) = "-"
        u   == IF neg THEN Tail(t) ELSE t
        ps  == SplitOn(u, ".")
        fp  == IF Len(ps) = 2 THEN ps[2] ELSE <<>>
        mag == 100 * DigitsVal(ps[1])
               + (IF Len(fp) = 1 THEN 10 * DigitsVal(fp) ELSE DigitsVal(fp))
    IN IF neg THEN 0 - mag ELSE mag

parseNumber(v) ==
    LET s == cleanStr(v)
        t == ReplaceAll(ReplaceAll(s, ",", <<>>), "$", <<>>)
    IN IF s = <<>> THEN 0
       ELSE IF IsNumber(t) THEN NumberVal(t) ELSE 0

normalizeDocId(raw) == ReplaceAll(cleanStr(raw), "/", <<"-">>)

\* Days from 0000-03-01-like epoch: only differences and order are used
IsLeap(y) == (y % 4 = 0 /\ y % 100 # 0) \/ y % 400 = 0

DaysBeforeYear(y) == 365 * y + ((y + 3) \div 4) - ((y + 99) \div 100) + ((y + 399) \div 400)

MonthLen(y, mi) ==
    IF mi = 1 THEN (IF IsLeap(y) THEN 29 ELSE 28)
    ELSE IF mi \in {3, 5, 8, 10} THEN 30 ELSE 31

RECURSIVE DaysBeforeMonth(_, _)
DaysBeforeMonth(y, mi) ==
    IF mi = 0 THEN 0 ELSE DaysBeforeMonth(y, mi - 1) + MonthLen(y, mi - 1)

\* new Date(year, monthIndex, day) as a day number: a month index past 11 carries
\* into the year, a day past the month's end carries into the following months,
\* a year 0..99 means 1900 + year
NewDate(year, monthIndex, day) ==
    LET y0 == IF year < 100 THEN 1900 + year ELSE year
        y  == y0 + (monthIndex \div 12)
        mi == monthIndex % 12
    IN DaysBeforeYear(y) + DaysBeforeMonth(y, mi) + day - 1

\* null, or a Date given by its day number
NoDate == [isNull |-> TRUE, day |-> 0]

DateOf(d) == [isNull |-> FALSE, day |-> d]

parseUSDate(mmddyyyy) ==
    LET s  == cleanStr(mmddyyyy)
        ps == SplitOn(s, "/")
        m  == /\ Len(ps) = 3
              /\ Len(ps[1]) \in {1, 2} /\ AllDigits(ps[1])
              /\ Len(ps[2]) \in {1, 2} /\ AllDigits(ps[2])
              /\ Len(ps[3]) = 4 /\ AllDigits(ps[3])
    IN IF ~m THEN NoDate
       ELSE LET month == DigitsVal(ps[1])
                day   == DigitsVal(ps[2])
                year  == DigitsVal(ps[3])
            IN IF month = 0 \/ day = 0 \/ year = 0 THEN NoDate
               ELSE DateOf(NewDate(year, month - 1, day))

\* YEARS_BACK, the default of the environment variable
YEARS_BACK == 3

\* cutoffDate(yearsBack) when the clock reads now = <<year, monthIndex, day>>
cutoffDate(now, yearsBack) == NewDate(now[1] - yearsBack, now[2], now[3])

makeLineId(invoiceNo, lineKey, rowIndex) ==
    LET k == cleanStr(lineKey)
    IN IF k # <<>> THEN normalizeDocId(invoiceNo \o <<"_", "_">> \o k)
       ELSE normalizeDocId(invoiceNo \o <<"_", "_">> \o NumStr(rowIndex))

----------------------------------------------------------------------------
(* The document store and write batches *)

\* BATCH_LIMIT, read from the environment variable of that name (default 450);
\* the runs examined here set it to 2
BATCH_LIMIT == 2

\* the ceiling the source has when the environment sets none, the ceiling of the
\* index builder, and the writes Firestore accepts in one commit
DEFAULT_BATCH_LIMIT == 450

SOURCE_INDEX_BATCH_LIMIT == 300

FIRESTORE_BATCH_LIMIT == 500

\* a test that lets a batch grow one write past the ceiling
BatchFullLate(count) == count > BATCH_LIMIT

\* headerBatchCount >= BATCH_LIMIT (lines 253, 333 and 375), after the increment
BatchFull(count) == count >= BATCH_LIMIT

\* f with key k set to v
Put(f, k, v) == [x \in (DOMAIN f) \cup {k} |-> IF x = k THEN v ELSE f[x]]

NoDocs == [x \in {} |-> 0]

\* invoices/{docId} and invoices/{docId}/lines/{lineId}
HeaderRef(docId) == [coll |-> "invoices", doc |-> docId, line |-> <<>>]

LineRef(docId, lineId) == [coll |-> "invoices", doc |-> docId, line |-> lineId]

\* Fields whose value is FieldValue.serverTimestamp(): the server fills them in
\* when it applies the write.  Server time is counted in runs.
TimestampFields == {"importedAt", "totalsComputedAt", "updatedAt"}

Stamp(data, time) ==
    [f \in DOMAIN data |-> IF f \in TimestampFields THEN time ELSE data[f]]

\* set(ref, data, {merge: true}) applied to the stored documents
MergeSet(docs, ref, data) ==
    IF ref \in DOMAIN docs
    THEN Put(docs, ref, [f \in (DOMAIN docs[ref]) \cup (DOMAIN data) |->
                            IF f \in DOMAIN data THEN data[f] ELSE docs[ref][f]])
    ELSE Put(docs, ref, data)

\* the writes of one commit, applied in the order they were added
RECURSIVE ApplyWrites(_, _, _)
ApplyWrites(docs, writes, time) ==
    IF writes = <<>> THEN docs
    ELSE ApplyWrites(MergeSet(docs, writes[1].ref, Stamp(writes[1].data, time)),
                     Tail(writes), time)

\* db.batch()
NewBatch == [writes |-> <<>>, committed |-> FALSE]

\* batch.set(ref, data, {merge: true}) on a batch that is not committed
BatchSet(batch, ref, data) ==
    [batch EXCEPT !.writes = Append(@, [ref |-> ref, data |-> data])]

\* Status codes a failed commit can carry in its message
ErrorKinds == {"ABORTED", "DEADLINE_EXCEEDED", "RESOURCE_EXHAUSTED", "UNAVAILABLE",
               "PERMISSION_DENIED", "INVALID_ARGUMENT"}

\* the message tests of commitWithRetry in the importer
IsTransient(msg) ==
    msg \in {"ABORTED", "DEADLINE_EXCEEDED", "RESOURCE_EXHAUSTED", "UNAVAILABLE"}

\* attempt <= 6 in commitWithRetry
RETRY_LIMIT == 6

ShouldRetry(attempt, msg) == attempt <= RETRY_LIMIT /\ IsTransient(msg)

\* waitMs = 250 * attempt * attempt
BackoffMs(attempt) == 250 * attempt * attempt

----------------------------------------------------------------------------
(* Input files *)

\* Rows a file may hold at most
MaxRows == 3

\* Commit attempts that may fail in one behaviour
MaxFaults == 1

\* The clock of the machine that runs the importer: 5 November 2024
\* (year, month index, day of month)
Today == <<2024, 10, 5>>

TA1    == <<"A", "/", "1">>
TAd1   == <<"A", "-", "1">>
TB     == <<"B">>
TC     == <<"C">>
TBlank == <<" ">>
DIn    == <<"0", "6", "/", "0", "1", "/", "2", "0", "2", "4">>
DOld   == <<"0", "1", "/", "1", "5", "/", "2", "0", "2", "0">>
DNext  == <<"0", "6", "/", "0", "1", "/", "2", "0", "3", "0">>
DIso   == <<"2", "0", "2", "4", "-", "0", "6", "-", "0", "1">>

HRow(no, date, cust, rep, freight, discount) ==
    [InvoiceNo |-> no, InvoiceDate |-> date, CustomerNo |-> cust,
     SalespersonNo |-> rep, FreightAmt |-> freight, DiscountAmt |-> discount]

DRow(no, key, item, desc, ext) ==
    [InvoiceNo |-> no, LineKey |-> key, ItemCode |-> item, ItemCodeDesc |-> desc,
     ExtensionAmt |-> ext]

\* Header rows: in window, in window under an id that differs only in "/",
\* before the cutoff, after today, a date in another format, no invoice number
HeaderRows ==
    { HRow(TA1,    DIn,   <<"C", "1">>, <<"7">>,                <<"5">>, <<"1">>),
      HRow(TAd1,   DIn,   <<"C", "2">>, <<"0", "0", "0", "7">>, <<"2">>, <<>>),
      HRow(TB,     DOld,  <<"C", "1">>, <<"7">>,                <<>>,    <<>>),
      HRow(TC,     DNext, <<"C", "3">>, <<"R", "E", "P">>,      <<>>,    <<>>),
      HRow(TB,     DIso,  <<"C", "1">>, <<"7">>,                <<>>,    <<>>),
      HRow(TBlank, DIn,   <<"C", "1">>, <<"7">>,                <<>>,    <<>>) }

\* Detail rows: two keyed lines of A/1 (10.50 and $25,00), a line of A/1 without a
\* line key and with an amount that is no number, a line of A-1, a line without
\* item code and description, lines of B and C, a line without invoice number
DetailRows ==
    { DRow(TA1,    <<"1">>, <<"X">>, <<"x">>, <<"1", "0", ".", "5", "0">>),
      DRow(TA1,    <<"2">>, <<"X">>, <<"x">>, <<"$", "2", "5", ",", "0", "0">>),
      DRow(TA1,    <<>>,    <<"Y">>, <<>>,    <<"n", "/", "a">>),
      DRow(TAd1,   <<"1">>, <<"Y">>, <<>>,    <<"3">>),
      DRow(TA1,    <<"3">>, <<>>,    <<" ">>, <<"4">>),
      DRow(TB,     <<"1">>, <<"X">>, <<>>,    <<"7">>),
      DRow(TC,     <<"1">>, <<"X">>, <<>>,    <<"9">>),
      DRow(TBlank, <<"1">>, <<"X">>, <<>>,    <<"1">>) }

----------------------------------------------------------------------------
(* State *)

VARIABLES
    \* the run: which header and detail rows its files draw from, how many
    \* commit attempts may fail, how many times the importer is started
    cfg,
    \* the two files as far as they have been read, and whether their end is known
    hhFile, hdFile, hhClosed, hdClosed,
    \* number of the run, position of the top-level code, and the cutoff it computed
    run, pc, cutoff,
    \* rowCount and skippedCount of the two streamParseCsv calls
    hhRowCount, hhSkipped, hdRowCount, hdSkipped,
    \* header pass
    inRangeInvoiceNos, headerFreight, headerDiscount,
    headerBatch, headerBatchCount, headersWritten,
    \* line pass
    merchTotals, merchOrder, lineBatch, lineBatchCount, linesWritten,
    \* finalizer
    totalsBatch, totalsBatchCount, totalsUpdated, totalsPos,
    \* commitWithRetry calls that have not settled, by the code that awaits them
    commits,
    \* failed commit attempts so far
    faults,
    \* the documents in Firestore
    store,
    \* how the commitWithRetry call that settled last ended
    settled,
    \* the message of the error a commitWithRetry call of this run has thrown last
    thrown,
    \* the store the first run found, and the documents the present run alone
    \* would have left on it
    found, solo,
    \* how the run before this one ended, and the store it left
    previous,
    \* the rows (by row index) whose write the run has added to a batch
    headersSet, linesSet,
    \* the index builder: position, loop counters, invMap, idx, batch
    ix,
    \* the lookup service: the request, the position of its handler, what the
    \* handler has read and computed, and its response
    lk

fileVars   == <<hhFile, hdFile, hhClosed, hdClosed>>
hhVars     == <<hhRowCount, hhSkipped>>
hdVars     == <<hdRowCount, hdSkipped>>
windowVars == <<inRangeInvoiceNos, headerFreight, headerDiscount>>
hBatchVars == <<headerBatch, headerBatchCount, headersWritten>>
merchVars  == <<merchTotals, merchOrder>>
lBatchVars == <<lineBatch, lineBatchCount, linesWritten>>
totalsVars == <<totalsBatch, totalsBatchCount, totalsUpdated, totalsPos>>

obsVars    == <<settled, thrown, previous, found>>
setVars    == <<headersSet, linesSet>>

vars == <<cfg, fileVars, run, pc, cutoff, hhVars, hdVars, windowVars, hBatchVars,
          merchVars, lBatchVars, totalsVars, commits, faults, store, solo, obsVars,
          setVars, ix, lk>>

\* who awaits a commit: the header row callback, the line row callback, the
\* top-level code
Awaiters == {"hdrCb", "lineCb", "main"}

Idle == [writes |-> <<>>, attempt |-> 0, phase |-> "idle", waitMs |-> 0, err |-> "none"]

AllIdle == [a \in Awaiters |-> Idle]

\* commitWithRetry(batch): batch.commit() has been called, attempt = 1
Committing(batch) ==
    [writes |-> batch.writes, attempt |-> 1, phase |-> "rpc", waitMs |-> 0, err |-> "none"]

\* the index builder has not been started
IxOff == [pc |-> "off", i |-> 0, invMap |-> NoDocs, idx |-> NoDocs, order |-> <<>>,
          pos |-> 0, batch |-> NewBatch, batchCount |-> 0, written |-> 0]

\* no request is being served
LkOff == [pc |-> "off"]

\* no commitWithRetry call has settled yet
NoneSettled == [by |-> "none", writes |-> <<>>, attempt |-> 0, result |-> "none", err |-> "none"]

Settled(a, c, result, msg) ==
    [by |-> a, writes |-> c.writes, attempt |-> c.attempt, result |-> result, err |-> msg]

NoPrevious == [ended |-> "none", store |-> NoDocs]

\* what the process finds at the paths of its key and of its two files: a
\* readable file, no file, or a file that cannot be read
FileStates == {"ok", "missing", "unreadable"}

FilesOk == [key |-> "ok", hh |-> "ok", hd |-> "ok"]

\* the state of a process that has just been started
Fresh ==
    /\ cutoff = cutoffDate(Today, YEARS_BACK)
    /\ hhRowCount = 0 /\ hhSkipped = 0 /\ hdRowCount = 0 /\ hdSkipped = 0
    /\ inRangeInvoiceNos = {} /\ headerFreight = NoDocs /\ headerDiscount = NoDocs
    /\ headerBatch = NewBatch /\ headerBatchCount = 0 /\ headersWritten = 0
    /\ merchTotals = NoDocs /\ merchOrder = <<>>
    /\ lineBatch = NewBatch /\ lineBatchCount = 0 /\ linesWritten = 0
    /\ totalsBatch = NewBatch /\ totalsBatchCount = 0 /\ totalsUpdated = 0
    /\ totalsPos = 1
    /\ commits = AllIdle

\* a program (the importer, or the index builder) is started in configuration c
\* over the files hh and hd; closed tells whether the files are known in full
StartWith(c, hh, hd, closed, importerPc, indexer) ==
    /\ cfg = c
    /\ hhFile = hh /\ hdFile = hd /\ hhClosed = closed /\ hdClosed = closed
    /\ run = 1
    /\ pc = importerPc
    /\ ix = indexer
    /\ faults = 0
    /\ store \in c.stores
    /\ found = store
    /\ solo = store
    /\ settled = NoneSettled
    /\ thrown = "none"
    /\ previous = NoPrevious
    /\ headersSet = {} /\ linesSet = {}
    /\ Fresh

\* the importer is started; its files are read as the run goes
InitWith(c) == StartWith(c, <<>>, <<>>, FALSE, "hdr", IxOff) /\ lk = LkOff

----------------------------------------------------------------------------
(* Reading a file: a row already read by an earlier run is read again, a row
   past that is any row of the pool, and the file ends where it ended before *)

RowsAt(file, closed, pool, i) ==
    IF i <= Len(file) THEN {file[i]}
    ELSE IF closed \/ Len(file) >= MaxRows THEN {}
    ELSE pool

Extended(file, i, r) == IF i <= Len(file) THEN file ELSE Append(file, r)

EndsAt(file, i) == i = Len(file) + 1

----------------------------------------------------------------------------
(* Header pass: part_017 lines 208-263, inside the step of lines 140-158 *)

\* line 234
PadOwner(raw) == PadStart(cleanStr(raw), 4)

\* the payload of lines 228-247 (the fields kept here)
HeaderPayload(r, invoiceNo, invoiceDate, rowIndex) ==
    [invoiceNo     |-> invoiceNo,
     invoiceDate   |-> invoiceDate.day,
     customerNo    |-> cleanStr(Coalesce(ciGet(r, "CustomerNo"), ciGet(r, "CustomerNumber"))),
     salespersonNo |-> PadOwner(ciGet(r, "SalespersonNo")),
     freightAmt    |-> parseNumber(ciGet(r, "FreightAmt")),
     discountAmt   |-> parseNumber(ciGet(r, "DiscountAmt")),
     importedAt    |-> 0,
     rowIndex      |-> rowIndex]

\* line 216: !invoiceDate || invoiceDate < cutoff
OutOfRange(invoiceDate, cut) == invoiceDate.isNull \/ invoiceDate.day < cut

HeaderRow ==
    /\ pc = "hdr"
    /\ cfg.files.hh = "ok"
    /\ \E r \in RowsAt(hhFile, hhClosed, cfg.hhPool, hhRowCount + 1) :
        LET rowIndex    == hhRowCount + 1
            invoiceNo   == cleanStr(ciGet(r, "InvoiceNo"))
            invoiceDate == parseUSDate(cleanStr(Coalesce(ciGet(r, "InvoiceDate"),
                                                         ciGet(r, "Date"))))
            ref         == HeaderRef(normalizeDocId(invoiceNo))
            payload     == HeaderPayload(r, invoiceNo, invoiceDate, rowIndex)
            full        == BatchFull(headerBatchCount + 1)
        IN
        /\ hhFile' = Extended(hhFile, rowIndex, r)
        /\ hhRowCount' = rowIndex
        /\ IF invoiceNo = <<>> \/ OutOfRange(invoiceDate, cutoff)
           THEN \* return false
                /\ hhSkipped' = hhSkipped + 1
                /\ UNCHANGED <<windowVars, hBatchVars, commits, headersSet>>
           ELSE /\ inRangeInvoiceNos' = inRangeInvoiceNos \cup {invoiceNo}
                /\ headerFreight' = Put(headerFreight, invoiceNo, payload.freightAmt)
                /\ headerDiscount' = Put(headerDiscount, invoiceNo, payload.discountAmt)
                /\ IF headerBatch.committed
                   THEN \* headerBatch.set throws, the step catches it
                        /\ hhSkipped' = hhSkipped + 1
                        /\ UNCHANGED <<hBatchVars, commits, headersSet>>
                   ELSE /\ headerBatchCount' = headerBatchCount + 1
                        /\ headersSet' = headersSet \cup {rowIndex}
                        /\ headersWritten' = headersWritten + 1
                        /\ UNCHANGED hhSkipped
                        /\ IF full
                           THEN \* await commitWithRetry(headerBatch)
                                /\ headerBatch' = [BatchSet(headerBatch, ref, payload)
                                                       EXCEPT !.committed = TRUE]
                                /\ commits' = [commits EXCEPT !["hdrCb"] =
                                       Committing(BatchSet(headerBatch, ref, payload))]
                           ELSE /\ headerBatch' = BatchSet(headerBatch, ref, payload)
                                /\ UNCHANGED commits
    /\ UNCHANGED <<cfg, ix, lk, hdFile, hhClosed, hdClosed, run, pc, cutoff, hdVars, merchVars,
                   lBatchVars, totalsVars, faults, store, solo, obsVars, linesSet>>

\* a header pass without the flush of line 265
HeaderEndNoFlush ==
    /\ pc = "hdr"
    /\ cfg.files.hh = "ok"
    /\ EndsAt(hhFile, hhRowCount + 1)
    /\ hhClosed' = TRUE
    /\ pc' = "line"
    /\ UNCHANGED <<cfg, ix, lk, hhFile, hdFile, hdClosed, run, cutoff, hhVars, hdVars, windowVars,
                   hBatchVars, merchVars, lBatchVars, totalsVars, commits,
                   faults, store, solo, obsVars, setVars>>

\* The header stream completes (line 166), the top-level code goes on to the
\* flush of line 265 and, with nothing to flush, to the line stream of line 283
HeaderEnd ==
    /\ pc = "hdr"
    /\ cfg.files.hh = "ok"
    /\ EndsAt(hhFile, hhRowCount + 1)
    /\ hhClosed' = TRUE
    /\ IF headerBatchCount > 0
       THEN /\ commits' = [commits EXCEPT !["main"] = Committing(headerBatch)]
            /\ headerBatch' = [headerBatch EXCEPT !.committed = TRUE]
            /\ pc' = "hdrFlush"
       ELSE /\ pc' = "line"
            /\ UNCHANGED <<commits, headerBatch>>
    /\ UNCHANGED <<cfg, ix, lk, hhFile, hdFile, hdClosed, run, cutoff, hhVars, hdVars, windowVars,
                   headerBatchCount, headersWritten, merchVars, lBatchVars, totalsVars,
                   faults, store, solo, obsVars, setVars>>

----------------------------------------------------------------------------
(* Line pass: part_017 lines 283-343, inside the step of lines 140-158 *)

\* lines 291-296
LineKeyOf(r) ==
    Coalesce(ciGet(r, "LineKey"),
             Coalesce(ciGet(r, "InvoiceLineKey"),
                      Coalesce(ciGet(r, "DetailSeqNo"),
                               Coalesce(ciGet(r, "LineSeqNo"), <<>>))))

\* the payload of lines 307-325 (the fields kept here)
LinePayload(r, invoiceNo, rowIndex) ==
    [invoiceNo    |-> invoiceNo,
     itemCode     |-> cleanStr(ciGet(r, "ItemCode")),
     itemCodeDesc |-> cleanStr(ciGet(r, "ItemCodeDesc")),
     extensionAmt |-> parseNumber(ciGet(r, "ExtensionAmt")),
     importedAt   |-> 0,
     rowIndex     |-> rowIndex]

\* a filter that asks only for a parent key, not for its membership
ParentKeyPresent(invoiceNo, inRange) == invoiceNo # <<>>

\* line 287
ParentInRange(invoiceNo, inRange) == invoiceNo # <<>> /\ invoiceNo \in inRange

\* line 305
IsNoise(r) == cleanStr(ciGet(r, "ItemCode")) = <<>> /\ cleanStr(ciGet(r, "ItemCodeDesc")) = <<>>

\* an accumulator that keeps the last amount instead of adding it
AccumulateLast(totals, invoiceNo, extensionAmt) == Put(totals, invoiceNo, extensionAmt)

\* line 331
Accumulate(totals, invoiceNo, extensionAmt) ==
    Put(totals, invoiceNo,
        (IF invoiceNo \in DOMAIN totals THEN totals[invoiceNo] ELSE 0) + extensionAmt)

LineRow ==
    /\ pc = "line"
    /\ cfg.files.hd = "ok"
    /\ \E r \in RowsAt(hdFile, hdClosed, cfg.hdPool, hdRowCount + 1) :
        LET rowIndex  == hdRowCount + 1
            invoiceNo == cleanStr(ciGet(r, "InvoiceNo"))
            docId     == normalizeDocId(invoiceNo)
            lineId    == makeLineId(invoiceNo, LineKeyOf(r), rowIndex)
            ref       == LineRef(docId, lineId)
            payload   == LinePayload(r, invoiceNo, rowIndex)
            full      == BatchFull(lineBatchCount + 1)
        IN
        /\ hdFile' = Extended(hdFile, rowIndex, r)
        /\ hdRowCount' = rowIndex
        /\ IF ~ParentInRange(invoiceNo, inRangeInvoiceNos) \/ IsNoise(r)
           THEN \* return false
                /\ hdSkipped' = hdSkipped + 1
                /\ UNCHANGED <<merchVars, lBatchVars, commits, linesSet>>
           ELSE IF lineBatch.committed
           THEN \* lineBatch.set throws, the step catches it
                /\ hdSkipped' = hdSkipped + 1
                /\ UNCHANGED <<merchVars, lBatchVars, commits, linesSet>>
           ELSE /\ lineBatchCount' = lineBatchCount + 1
                /\ linesSet' = linesSet \cup {rowIndex}
                /\ linesWritten' = linesWritten + 1
                /\ merchTotals' = Accumulate(merchTotals, invoiceNo, payload.extensionAmt)
                /\ merchOrder' = IF invoiceNo \in DOMAIN merchTotals THEN merchOrder
                                 ELSE Append(merchOrder, invoiceNo)
                /\ UNCHANGED hdSkipped
                /\ IF full
                   THEN \* await commitWithRetry(lineBatch)
                        /\ lineBatch' = [BatchSet(lineBatch, ref, payload)
                                             EXCEPT !.committed = TRUE]
                        /\ commits' = [commits EXCEPT !["lineCb"] =
                               Committing(BatchSet(lineBatch, ref, payload))]
                   ELSE /\ lineBatch' = BatchSet(lineBatch, ref, payload)
                        /\ UNCHANGED commits
    /\ UNCHANGED <<cfg, ix, lk, hhFile, hhClosed, hdClosed, run, pc, cutoff, hhVars, windowVars,
                   hBatchVars, totalsVars, faults, store, solo, obsVars, headersSet>>

\* The line stream completes, the top-level code goes on to the flush of line 345
\* and, with nothing to flush, to the finalizer of line 351
LineEnd ==
    /\ pc = "line"
    /\ cfg.files.hd = "ok"
    /\ EndsAt(hdFile, hdRowCount + 1)
    /\ hdClosed' = TRUE
    /\ IF lineBatchCount > 0
       THEN /\ commits' = [commits EXCEPT !["main"] = Committing(lineBatch)]
            /\ lineBatch' = [lineBatch EXCEPT !.committed = TRUE]
            /\ pc' = "lineFlush"
       ELSE /\ pc' = "totals"
            /\ UNCHANGED <<commits, lineBatch>>
    /\ UNCHANGED <<cfg, ix, lk, hhFile, hdFile, hhClosed, run, cutoff, hhVars, hdVars, windowVars,
                   hBatchVars, merchVars, lineBatchCount, linesWritten, totalsVars,
                   faults, store, solo, obsVars, setVars>>

----------------------------------------------------------------------------
(* Finalizer: part_017 lines 351-383 *)

\* lines 359-370
TotalsPayload(invoiceNo, merchTotal, freight, discount) ==
    [merchTotal           |-> merchTotal,
     invoiceTotalComputed |-> merchTotal
                              + (IF invoiceNo \in DOMAIN freight THEN freight[invoiceNo] ELSE 0)
                              - (IF invoiceNo \in DOMAIN discount THEN discount[invoiceNo] ELSE 0),
     totalsComputedAt     |-> 0]

\* The loop of lines 355-381 from entry pos up to its next await: the batch it
\* has filled, or the end of the map
RECURSIVE TotalsLoop(_, _, _, _, _, _, _)
TotalsLoop(order, totals, freight, discount, pos, batch, count) ==
    IF pos > Len(order) THEN [pos |-> pos, batch |-> batch, count |-> count, await |-> FALSE]
    ELSE LET invoiceNo == order[pos]
             next == BatchSet(batch, HeaderRef(normalizeDocId(invoiceNo)),
                              TotalsPayload(invoiceNo, totals[invoiceNo], freight, discount))
         IN IF BatchFull(count + 1)
            THEN [pos |-> pos + 1, batch |-> next, count |-> count + 1, await |-> TRUE]
            ELSE TotalsLoop(order, totals, freight, discount, pos + 1, next, count + 1)

Finalizer ==
    /\ pc = "totals"
    /\ LET res == TotalsLoop(merchOrder, merchTotals, headerFreight, headerDiscount,
                             totalsPos, totalsBatch, totalsBatchCount)
       IN /\ totalsPos' = res.pos
          /\ totalsBatchCount' = res.count
          /\ totalsUpdated' = totalsUpdated + (res.pos - totalsPos)
          /\ IF res.await
             THEN \* line 376
                  /\ totalsBatch' = [res.batch EXCEPT !.committed = TRUE]
                  /\ commits' = [commits EXCEPT !["main"] = Committing(res.batch)]
                  /\ pc' = "totalsCommit"
             ELSE IF res.count > 0
             THEN \* line 383
                  /\ totalsBatch' = [res.batch EXCEPT !.committed = TRUE]
                  /\ commits' = [commits EXCEPT !["main"] = Committing(res.batch)]
                  /\ pc' = "totalsFlush"
             ELSE /\ totalsBatch' = res.batch
                  /\ pc' = "done"
                  /\ UNCHANGED commits
    /\ UNCHANGED <<cfg, ix, lk, fileVars, run, cutoff, hhVars, hdVars, windowVars, hBatchVars,
                   merchVars, lBatchVars, faults, store, solo, obsVars, setVars>>

----------------------------------------------------------------------------
(* commitWithRetry: part_017 lines 80-98, and what its awaiters do next *)

\* batch.commit() resolves for a commit started in a row callback: the callback
\* goes on with lines 255-256 (335-336) and returns true
CallbackCommitOk(a) ==
    /\ a \in {"hdrCb", "lineCb"}
    /\ commits[a].phase = "rpc"
    /\ store' = ApplyWrites(store, commits[a].writes, run)
    /\ solo' = ApplyWrites(solo, commits[a].writes, run)
    /\ settled' = IF cfg.record THEN Settled(a, commits[a], "ok", "none") ELSE settled
    /\ commits' = [commits EXCEPT ![a] = Idle]
    /\ IF a = "hdrCb"
       THEN /\ headerBatch' = NewBatch
            /\ headerBatchCount' = 0
            /\ UNCHANGED <<headersWritten, lBatchVars>>
       ELSE /\ lineBatch' = NewBatch
            /\ lineBatchCount' = 0
            /\ UNCHANGED <<linesWritten, hBatchVars>>
    /\ UNCHANGED <<cfg, ix, lk, fileVars, run, pc, cutoff, hhVars, hdVars, windowVars, merchVars,
                   totalsVars, faults, thrown, previous, found, setVars>>

\* batch.commit() resolves for a commit awaited by the top-level code
MainCommitOk ==
    /\ pc # "off"
    /\ commits["main"].phase = "rpc"
    /\ store' = ApplyWrites(store, commits["main"].writes, run)
    /\ solo' = ApplyWrites(solo, commits["main"].writes, run)
    /\ settled' = IF cfg.record THEN Settled("main", commits["main"], "ok", "none")
                   ELSE settled
    /\ commits' = [commits EXCEPT !["main"] = Idle]
    /\ pc' = CASE pc = "hdrFlush"     -> "line"
               [] pc = "lineFlush"    -> "totals"
               [] pc = "totalsCommit" -> "totals"
               [] pc = "totalsFlush"  -> "done"
    /\ IF pc = "totalsCommit"
       THEN \* lines 377-378
            /\ totalsBatch' = NewBatch
            /\ totalsBatchCount' = 0
            /\ UNCHANGED <<totalsUpdated, totalsPos>>
       ELSE UNCHANGED totalsVars
    /\ UNCHANGED <<cfg, ix, lk, fileVars, run, cutoff, hhVars, hdVars, windowVars, hBatchVars,
                   merchVars, lBatchVars, faults, thrown, previous, found, setVars>>

\* batch.commit() rejects with a message that passes the test of lines 85-91:
\* the call waits 250 * attempt^2 ms.  The server may have applied the writes
\* and the answer been lost.
CommitRetried(a) ==
    /\ pc # "off"
    /\ commits[a].phase = "rpc"
    /\ faults < cfg.faults
    /\ \E msg \in cfg.errors :
        /\ ShouldRetry(commits[a].attempt, msg)
        /\ commits' = [commits EXCEPT ![a].phase = "backoff",
                                      ![a].waitMs = BackoffMs(commits[a].attempt),
                                      ![a].err = msg]
    /\ \E applied \in cfg.lostAcks :
        /\ store' = IF applied THEN ApplyWrites(store, commits[a].writes, run) ELSE store
        /\ solo' = IF applied THEN ApplyWrites(solo, commits[a].writes, run) ELSE solo
    /\ faults' = faults + 1
    /\ UNCHANGED <<cfg, ix, lk, fileVars, run, pc, cutoff, hhVars, hdVars, windowVars, hBatchVars,
                   merchVars, lBatchVars, totalsVars, obsVars, setVars>>

\* the wait is over: commitWithRetry(batch, attempt + 1) calls batch.commit() again
BackoffElapsed(a) ==
    /\ pc # "off"
    /\ commits[a].phase = "backoff"
    /\ commits' = [commits EXCEPT ![a].phase = "rpc",
                                  ![a].attempt = commits[a].attempt + 1,
                                  ![a].waitMs = 0,
                                  ![a].err = "none"]
    /\ UNCHANGED <<cfg, ix, lk, fileVars, run, pc, cutoff, hhVars, hdVars, windowVars, hBatchVars,
                   merchVars, lBatchVars, totalsVars, faults, store, solo, obsVars, setVars>>

\* batch.commit() rejects and commitWithRetry throws (line 96) inside a row
\* callback: the rejection reaches the catch of line 156, which counts a skip
CallbackCommitThrows(a) ==
    /\ a \in {"hdrCb", "lineCb"}
    /\ commits[a].phase = "rpc"
    /\ faults < cfg.faults
    /\ \E msg \in cfg.errors :
        /\ ~ShouldRetry(commits[a].attempt, msg)
        /\ settled' = IF cfg.record THEN Settled(a, commits[a], "thrown", msg) ELSE settled
        /\ thrown' = msg
    /\ commits' = [commits EXCEPT ![a] = Idle]
    /\ faults' = faults + 1
    /\ IF a = "hdrCb"
       THEN hhSkipped' = hhSkipped + 1 /\ UNCHANGED <<hhRowCount, hdVars>>
       ELSE hdSkipped' = hdSkipped + 1 /\ UNCHANGED <<hdRowCount, hhVars>>
    /\ UNCHANGED <<cfg, ix, lk, fileVars, run, pc, cutoff, windowVars, hBatchVars, merchVars,
                   lBatchVars, totalsVars, store, solo, previous, found, setVars>>

\* batch.commit() rejects and commitWithRetry throws into a top-level await:
\* the module's evaluation rejects and the process ends
MainCommitThrows ==
    /\ pc # "off"
    /\ commits["main"].phase = "rpc"
    /\ faults < cfg.faults
    /\ \E msg \in cfg.errors :
        /\ ~ShouldRetry(commits["main"].attempt, msg)
        /\ settled' = IF cfg.record THEN Settled("main", commits["main"], "thrown", msg)
                       ELSE settled
        /\ thrown' = msg
    /\ commits' = AllIdle
    /\ faults' = faults + 1
    /\ pc' = "fatal"
    /\ UNCHANGED <<cfg, ix, lk, fileVars, run, cutoff, hhVars, hdVars, windowVars, hBatchVars,
                   merchVars, lBatchVars, totalsVars, store, solo, previous, found, setVars>>

----------------------------------------------------------------------------
(* The process is ended (at any point) or has ended, and the importer is
   started again over the same files *)

\* the run has printed DONE and no commit of it is pending
RunComplete == pc = "done" /\ commits = AllIdle

Restart ==
    /\ run < cfg.runs
    /\ run' = run + 1
    /\ previous' = [ended |-> IF RunComplete THEN "complete"
                              ELSE IF pc = "fatal" THEN "fatal" ELSE "killed",
                    store |-> store]
    /\ solo' = found
    /\ settled' = NoneSettled
    /\ thrown' = "none"
    /\ pc' = "hdr"
    /\ cutoff' = cutoffDate(Today, YEARS_BACK)
    /\ hhRowCount' = 0 /\ hhSkipped' = 0 /\ hdRowCount' = 0 /\ hdSkipped' = 0
    /\ inRangeInvoiceNos' = {} /\ headerFreight' = NoDocs /\ headerDiscount' = NoDocs
    /\ headerBatch' = NewBatch /\ headerBatchCount' = 0 /\ headersWritten' = 0
    /\ merchTotals' = NoDocs /\ merchOrder' = <<>>
    /\ lineBatch' = NewBatch /\ lineBatchCount' = 0 /\ linesWritten' = 0
    /\ totalsBatch' = NewBatch /\ totalsBatchCount' = 0 /\ totalsUpdated' = 0
    /\ totalsPos' = 1
    /\ commits' = AllIdle
    /\ headersSet' = {} /\ linesSet' = {}
    /\ UNCHANGED <<cfg, ix, lk, fileVars, faults, store, found>>

----------------------------------------------------------------------------
(* Index builder: build_item_customer_index.mjs *)

\* the characters of the texts, in the order of their UTF-16 code units
CharOrder ==
    <<" ", "$", ",", "-", ".", "/", "0", "1", "2", "3", "4", "5", "6", "7", "8", "9",
      "A", "B", "C", "D", "E", "F", "G", "H", "I", "J", "K", "L", "M", "N", "O", "P", "Q",
      "R", "S", "T", "U", "V", "W", "X", "Y", "Z", "_",
      "a", "b", "c", "d", "e", "f", "g", "h", "i", "j", "k", "l", "m", "n", "o", "p", "q",
      "r", "s", "t", "u", "v", "w", "x", "y", "z", "U+F8FF">>

CharCode(c) == CHOOSE n \in 1..Len(CharOrder) : CharOrder[n] = c

\* a < b for two strings, as Array.prototype.sort() without a comparator orders them
RECURSIVE TextLess(_, _)
TextLess(a, b) ==
    IF b = <<>> THEN FALSE
    ELSE IF a = <<>> THEN TRUE
    ELSE IF Head(a) = Head(b) THEN TextLess(Tail(a), Tail(b))
    ELSE CharCode(Head(a)) < CharCode(Head(b))

\* s.toUpperCase(): "a" is 27 places after "A" in CharOrder
ToUpperCase(s) ==
    [n \in 1..Len(s) |->
        IF CharCode(s[n]) >= CharCode("a") /\ CharCode(s[n]) <= CharCode("z")
        THEN CharOrder[CharCode(s[n]) - 27] ELSE s[n]]

\* array.sort(): insertion of each element into the sorted rest
RECURSIVE InsertSorted(_, _)
InsertSorted(sorted, x) ==
    IF sorted = <<>> THEN <<x>>
    ELSE IF TextLess(x, Head(sorted)) THEN <<x>> \o sorted
    ELSE <<Head(sorted)>> \o InsertSorted(Tail(sorted), x)

RECURSIVE SortTexts(_)
SortTexts(a) == IF a = <<>> THEN <<>> ELSE InsertSorted(SortTexts(Tail(a)), Head(a))

\* lines 49-53
padSalesperson(v) ==
    LET s == cleanStr(v)
    IN IF s = <<>> THEN <<>> ELSE IF Len(s) >= 4 THEN s ELSE PadStart(s, 4)

\* the message test of commitWithRetry in the index builder (lines 84-89)
IsTransientIndex(msg) == msg \in {"ABORTED", "DEADLINE_EXCEEDED", "RESOURCE_EXHAUSTED"}

ShouldRetryIndex(attempt, msg) == attempt <= RETRY_LIMIT /\ IsTransientIndex(msg)

\* BATCH_LIMIT of the index builder (300 in the source, line 201); the builds
\* examined here commit every 2 documents
INDEX_BATCH_LIMIT == 2

IndexRef(docId) == [coll |-> "itemCustomerIndex", doc |-> docId, line |-> <<>>]

\* lines 139-141 and 173-175
IndexInvoiceNo(r) ==
    cleanStr(Coalesce(ciGet(r, "InvoiceNo"),
                      Coalesce(ciGet(r, "InvoiceNumber"), ciGet(r, "Invoice"))))

\* lines 148-151
IndexCustomerNo(r) == cleanStr(Coalesce(ciGet(r, "CustomerNo"), ciGet(r, "CustomerNumber")))

IndexSalespersonNo(r) ==
    padSalesperson(Coalesce(ciGet(r, "SalespersonNo"),
                            Coalesce(ciGet(r, "SalesmanNo"), ciGet(r, "Salesperson"))))

\* line 181
IndexItemCode(r) == ToUpperCase(cleanStr(Coalesce(ciGet(r, "ItemCode"), ciGet(r, "Item"))))

\* line 184
IndexKey(itemCode, salespersonNo) == itemCode \o <<"_", "_">> \o salespersonNo

\* set.add(x) on a Set held in insertion order
SetAdd(members, x) ==
    IF \E n \in 1..Len(members) : members[n] = x THEN members ELSE Append(members, x)

\* the payload of lines 208-220, with the customers in insertion order
IndexPayloadUnsorted(v) ==
    [itemCode      |-> v.itemCode,
     salespersonNo |-> v.salespersonNo,
     customerNos   |-> v.customers,
     customerCount |-> Len(v.customers),
     yearsBack     |-> YEARS_BACK,
     updatedAt     |-> 0]

\* the payload of lines 208-220
IndexPayload(v) ==
    [itemCode      |-> v.itemCode,
     salespersonNo |-> v.salespersonNo,
     customerNos   |-> SortTexts(v.customers),
     customerCount |-> Len(SortTexts(v.customers)),
     yearsBack     |-> YEARS_BACK,
     updatedAt     |-> 0]

importerVars ==
    <<cfg, lk, fileVars, run, pc, cutoff, hhVars, hdVars, windowVars, hBatchVars, merchVars,
      lBatchVars, totalsVars, solo, obsVars, setVars>>

\* one turn of the loop of lines 137-157
IxHeaderRow ==
    /\ ix.pc = "headers"
    /\ ix.i <= Len(hhFile)
    /\ LET r             == hhFile[ix.i]
           invoiceNo     == IndexInvoiceNo(r)
           invoiceDate   == parseUSDate(cleanStr(Coalesce(ciGet(r, "InvoiceDate"),
                                                          ciGet(r, "Date"))))
           customerNo    == IndexCustomerNo(r)
           salespersonNo == IndexSalespersonNo(r)
       IN ix' = IF \/ invoiceNo = <<>>
                   \/ OutOfRange(invoiceDate, cutoff)
                   \/ customerNo = <<>> \/ salespersonNo = <<>>
                THEN [ix EXCEPT !.i = ix.i + 1]
                ELSE [ix EXCEPT !.i = ix.i + 1,
                                !.invMap = Put(ix.invMap, invoiceNo,
                                               [customerNo |-> customerNo,
                                                salespersonNo |-> salespersonNo])]
    /\ UNCHANGED <<importerVars, commits, faults, store>>

\* the loop of lines 137-157 ends; the lines are read (lines 163-165)
IxHeadersDone ==
    /\ ix.pc = "headers"
    /\ ix.i > Len(hhFile)
    /\ ix' = [ix EXCEPT !.pc = "lines", !.i = 1]
    /\ UNCHANGED <<importerVars, commits, faults, store>>

\* one turn of the loop of lines 171-193
IxLineRow ==
    /\ ix.pc = "lines"
    /\ ix.i <= Len(hdFile)
    /\ LET r         == hdFile[ix.i]
           invoiceNo == IndexInvoiceNo(r)
           itemCode  == IndexItemCode(r)
       IN ix' = IF invoiceNo = <<>> \/ invoiceNo \notin DOMAIN ix.invMap \/ itemCode = <<>>
                THEN [ix EXCEPT !.i = ix.i + 1]
                ELSE LET header == ix.invMap[invoiceNo]
                         key    == IndexKey(itemCode, header.salespersonNo)
                         cur    == IF key \in DOMAIN ix.idx THEN ix.idx[key]
                                   ELSE [itemCode |-> itemCode,
                                         salespersonNo |-> header.salespersonNo,
                                         customers |-> <<>>]
                     IN [ix EXCEPT !.i = ix.i + 1,
                                   !.idx = Put(ix.idx, key,
                                               [cur EXCEPT !.customers =
                                                    SetAdd(cur.customers, header.customerNo)]),
                                   !.order = IF key \in DOMAIN ix.idx THEN ix.order
                                             ELSE Append(ix.order, key)]
    /\ UNCHANGED <<importerVars, commits, faults, store>>

\* the loop of lines 171-193 ends; the write loop starts (lines 199-204)
IxLinesDone ==
    /\ ix.pc = "lines"
    /\ ix.i > Len(hdFile)
    /\ ix' = [ix EXCEPT !.pc = "write", !.pos = 1]
    /\ UNCHANGED <<importerVars, commits, faults, store>>

\* one turn of the loop of lines 204-232, up to its await
IxWrite ==
    /\ ix.pc = "write"
    /\ ix.pos <= Len(ix.order)
    /\ LET key   == ix.order[ix.pos]
           ref   == IndexRef(normalizeDocId(key))
           batch == BatchSet(ix.batch, ref, IndexPayload(ix.idx[key]))
       IN IF ix.batchCount + 1 >= INDEX_BATCH_LIMIT
          THEN /\ ix' = [ix EXCEPT !.pos = ix.pos + 1, !.batch = batch,
                                   !.batchCount = ix.batchCount + 1,
                                   !.written = ix.written + 1, !.pc = "commit"]
               /\ commits' = [commits EXCEPT !["main"] = Committing(batch)]
          ELSE /\ ix' = [ix EXCEPT !.pos = ix.pos + 1, !.batch = batch,
                                   !.batchCount = ix.batchCount + 1,
                                   !.written = ix.written + 1]
               /\ UNCHANGED commits
    /\ UNCHANGED <<importerVars, faults, store>>

\* the loop of lines 204-232 ends; line 234
IxWriteDone ==
    /\ ix.pc = "write"
    /\ ix.pos > Len(ix.order)
    /\ IF ix.batchCount > 0
       THEN /\ ix' = [ix EXCEPT !.pc = "flush"]
            /\ commits' = [commits EXCEPT !["main"] = Committing(ix.batch)]
       ELSE /\ ix' = [ix EXCEPT !.pc = "done"]
            /\ UNCHANGED commits
    /\ UNCHANGED <<importerVars, faults, store>>

\* batch.commit() resolves: lines 228-229, or the end of the build
IxCommitOk ==
    /\ ix.pc \in {"commit", "flush"}
    /\ commits["main"].phase = "rpc"
    /\ store' = ApplyWrites(store, commits["main"].writes, run)
    /\ commits' = [commits EXCEPT !["main"] = Idle]
    /\ ix' = IF ix.pc = "commit"
             THEN [ix EXCEPT !.pc = "write", !.batch = NewBatch, !.batchCount = 0]
             ELSE [ix EXCEPT !.pc = "done"]
    /\ UNCHANGED <<importerVars, faults>>

\* batch.commit() rejects with a message that passes the test of lines 84-89
IxCommitRetried ==
    /\ ix.pc \in {"commit", "flush"}
    /\ commits["main"].phase = "rpc"
    /\ faults < cfg.faults
    /\ \E msg \in cfg.errors :
        /\ ShouldRetryIndex(commits["main"].attempt, msg)
        /\ commits' = [commits EXCEPT !["main"].phase = "backoff",
                                      !["main"].waitMs = BackoffMs(commits["main"].attempt),
                                      !["main"].err = msg]
    /\ faults' = faults + 1
    /\ UNCHANGED <<importerVars, ix, store>>

\* the wait of line 91 is over
IxBackoffElapsed ==
    /\ ix.pc \in {"commit", "flush"}
    /\ commits["main"].phase = "backoff"
    /\ commits' = [commits EXCEPT !["main"].phase = "rpc",
                                  !["main"].attempt = commits["main"].attempt + 1,
                                  !["main"].waitMs = 0,
                                  !["main"].err = "none"]
    /\ UNCHANGED <<importerVars, ix, faults, store>>

\* batch.commit() rejects and commitWithRetry throws (line 94) into the top-level
\* await: the build ends
IxCommitThrows ==
    /\ ix.pc \in {"commit", "flush"}
    /\ commits["main"].phase = "rpc"
    /\ faults < cfg.faults
    /\ \E msg \in cfg.errors : ~ShouldRetryIndex(commits["main"].attempt, msg)
    /\ commits' = AllIdle
    /\ faults' = faults + 1
    /\ ix' = [ix EXCEPT !.pc = "fatal"]
    /\ UNCHANGED <<importerVars, store>>

----------------------------------------------------------------------------
(* Lookup service: part_002 lines 23-35, 51-56 and 154-413 (GET) *)

\* the breakpoints 10000, 5000 and 2000 of lines 31-33, in hundredths
TIER_A_MIN == 1000000

TIER_B_MIN == 500000

TIER_C_MIN == 200000

\* the cap of line 175
OPP_COUNT_MAX == 25

\* limit(1000) of lines 194 and 203, slice(0, 500) of line 234 and slice(0, 250)
\* of line 252; the requests examined here are served with caps of 2
LINES_LIMIT == 2

INVOICES_LIMIT == 2

BUYERS_LIMIT == 2

\* limit(2500) of lines 309, 310 and 359
CUSTOMERS_LIMIT == 2500

\* slice(0, 25) of line 105
DESC_SCAN == 25

\* lines 23-28; a field the document does not have is undefined
toNumber(v) ==
    IF v = Undefined THEN 0
    ELSE LET s == cleanStr(ReplaceAll(ReplaceAll(v, "$", <<>>), ",", <<>>))
         IN IF IsNumber(s) THEN NumberVal(s) ELSE 0

\* bands whose lower bounds are exclusive
tierExclusive(sales25) ==
    IF sales25 > TIER_A_MIN THEN "A"
    ELSE IF sales25 > TIER_B_MIN THEN "B"
    ELSE IF sales25 > TIER_C_MIN THEN "C"
    ELSE "D"

\* lines 30-35
tierFromSales25(sales25) ==
    IF sales25 >= TIER_A_MIN THEN "A"
    ELSE IF sales25 >= TIER_B_MIN THEN "B"
    ELSE IF sales25 >= TIER_C_MIN THEN "C"
    ELSE "D"

\* lines 51-56
normRep(v) ==
    LET s == cleanStr(v)
    IN IF s = <<>> THEN <<>>
       ELSE LET digits == SelectSeq(s, IsDigit)
            IN PadStart(IF digits # <<>> THEN digits ELSE s, 4)

\* searchParams.get(name) || "": a parameter the URL does not have is undefined
ParamOr(v, default) == IF v = Undefined \/ v = <<>> THEN default ELSE v

\* Number(text): a number in hundredths, or NaN
NaN == [nan |-> TRUE, val |-> 0]

JsNumber(t) ==
    LET u == cleanStr(t)
    IN IF IsNumber(u) THEN [nan |-> FALSE, val |-> NumberVal(u)] ELSE NaN

\* line 175: Math.min(Number(searchParams.get("oppCount") || "4"), 25)
oppCountOf(raw) ==
    LET n == JsNumber(ParamOr(raw, <<"4">>))
    IN IF n.nan THEN NaN
       ELSE [nan |-> FALSE,
             val |-> IF n.val < 100 * OPP_COUNT_MAX THEN n.val ELSE 100 * OPP_COUNT_MAX]

\* lines 164-173
selectedTierOf(raw) ==
    LET t == ToUpperCase(cleanStr(ParamOr(raw, <<>>)))
    IN IF t \in {<<"A">>, <<"B">>, <<"C">>, <<"D">>} THEN t[1] ELSE "null"

\* list.slice(0, end): end is truncated to an integer, NaN counts as 0, and a
\* negative end counts from the end of the list
SliceTo(list, end) ==
    LET t == IF end.nan THEN 0
             ELSE IF end.val < 0 THEN 0 - ((0 - end.val) \div 100)
             ELSE end.val \div 100
        k == IF t < 0 THEN (IF Len(list) + t > 0 THEN Len(list) + t ELSE 0)
             ELSE IF t < Len(list) THEN t ELSE Len(list)
    IN SubSeq(list, 1, k)

\* doc.data()?.field
Field(d, f) == IF f \in DOMAIN d THEN d[f] ELSE Undefined

CustomerRef(id) == [coll |-> "customers", doc |-> id, line |-> <<>>]

\* the order of documents by name: by the id of the document, then of the line
RefLess(a, b) == IF a.doc # b.doc THEN TextLess(a.doc, b.doc) ELSE TextLess(a.line, b.line)

RECURSIVE OrderByName(_)
OrderByName(S) ==
    IF S = {} THEN <<>>
    ELSE LET m == CHOOSE r \in S : \A q \in S \ {r} : RefLess(r, q)
         IN <<m>> \o OrderByName(S \ {m})

\* the order of a query with an inequality on itemCode: by itemCode, then by name
RECURSIVE OrderByItemCode(_, _)
OrderByItemCode(docs, S) ==
    IF S = {} THEN <<>>
    ELSE LET m == CHOOSE r \in S : \A q \in S \ {r} :
                      \/ TextLess(docs[r].itemCode, docs[q].itemCode)
                      \/ docs[r].itemCode = docs[q].itemCode /\ RefLess(r, q)
         IN <<m>> \o OrderByItemCode(docs, S \ {m})

\* query.limit(n)
Limit(list, n) == SubSeq(list, 1, IF Len(list) < n THEN Len(list) ELSE n)

IsLine(r) == r.coll = "invoices" /\ r.line # <<>>

\* lines 191-195
LinesExact(docs, itemCode) ==
    Limit(OrderByName({r \in DOMAIN docs :
                          IsLine(r) /\ Field(docs[r], "itemCode") = itemCode}),
          LINES_LIMIT)

\* lines 199-204
LinesPrefix(docs, itemCode) ==
    Limit(OrderByItemCode(docs,
              {r \in DOMAIN docs :
                  /\ IsLine(r)
                  /\ Field(docs[r], "itemCode") # Undefined
                  /\ \/ docs[r].itemCode = itemCode
                     \/ TextLess(itemCode, docs[r].itemCode)
                  /\ TextLess(docs[r].itemCode, itemCode \o <<"U+F8FF">>)}),
          LINES_LIMIT)

\* itemCode.includes("__")
HasDoubleUnderscore(s) == \E n \in 1..(Len(s) - 1) : s[n] = "_" /\ s[n + 1] = "_"

\* lines 212-226
RECURSIVE InvoiceIdsOf(_, _, _)
InvoiceIdsOf(docs, snap, ids) ==
    IF snap = <<>> THEN ids
    ELSE LET inv == cleanStr(Field(docs[Head(snap)], "invoiceNo"))
         IN InvoiceIdsOf(docs, Tail(snap),
                         SetAdd(ids, IF inv # <<>> THEN inv ELSE Head(snap).doc))

\* collection.doc(id) throws unless the id gives a document path: an odd number
\* of non-empty pieces between "/"
IsDocumentPath(id) ==
    LET ps == SplitOn(id, "/")
    IN Len(ps) % 2 = 1 /\ \A n \in 1..Len(ps) : ps[n] # <<>>

\* db.collection(coll).doc(id)
DocAt(coll, id) ==
    LET ps == SplitOn(id, "/")
    IN IF coll = "invoices" /\ Len(ps) = 3 /\ ps[2] = <<"l", "i", "n", "e", "s">>
       THEN LineRef(ps[1], ps[3])
       ELSE [coll |-> coll, doc |-> id, line |-> <<>>]

\* lines 239-244
RECURSIVE BuyerIdsOf(_, _, _)
BuyerIdsOf(docs, ids, buyerIds) ==
    IF ids = <<>> THEN buyerIds
    ELSE LET r == DocAt("invoices", Head(ids))
             c == IF r \in DOMAIN docs THEN Field(docs[r], "customerNo") ELSE Undefined
         IN BuyerIdsOf(docs, Tail(ids),
                       IF c # Undefined /\ c # <<>> THEN SetAdd(buyerIds, c) ELSE buyerIds)

\* lines 259-276 and 336-351 (the fields kept here)
BuyerOf(docs, r) ==
    [customerNo    |-> r.doc,
     salespersonNo |-> Coalesce(Field(docs[r], "salespersonNo"),
                                Coalesce(Field(docs[r], "salesperson"), <<>>)),
     sales25       |-> toNumber(Field(docs[r], "udf_25TotalSales")),
     tier          |-> tierFromSales25(toNumber(Field(docs[r], "udf_25TotalSales")))]

\* lines 252-276
RECURSIVE BuyersOf(_, _)
BuyersOf(docs, ids) ==
    IF ids = <<>> THEN <<>>
    ELSE (IF DocAt("customers", Head(ids)) \in DOMAIN docs
          THEN <<BuyerOf(docs, DocAt("customers", Head(ids)))>> ELSE <<>>)
         \o BuyersOf(docs, Tail(ids))

\* lines 279-281
OwnedBy(buyers, repNo) ==
    LET Mine(b) == normRep(b.salespersonNo) = repNo
    IN IF repNo # <<>> THEN SelectSeq(buyers, Mine) ELSE buyers

\* a choice that keeps the last buyer of a band instead of the best
KeepLast(b, best) == TRUE

\* line 292
Better(b, best) == b.tier \notin DOMAIN best \/ b.sales25 > best[b.tier].sales25

\* lines 286-293
RECURSIVE BestByTier(_, _)
BestByTier(buyers, best) ==
    IF buyers = <<>> THEN best
    ELSE BestByTier(Tail(buyers),
                    IF Better(Head(buyers), best)
                    THEN Put(best, Head(buyers).tier, Head(buyers)) ELSE best)

TierOrder == <<"A", "B", "C", "D">>

\* lines 294-295
OnePerTier(buyers) ==
    LET best == BestByTier(buyers, NoDocs)
        Present(t) == t \in DOMAIN best
        present == SelectSeq(TierOrder, Present)
    IN [n \in 1..Len(present) |-> best[present[n]]]

\* lines 309-310
CustomersWhere(docs, field, repNo) ==
    Limit(OrderByName({r \in DOMAIN docs :
                          r.coll = "customers" /\ Field(docs[r], field) = repNo}),
          CUSTOMERS_LIMIT)

\* line 359
AllCustomers(docs) ==
    Limit(OrderByName({r \in DOMAIN docs : r.coll = "customers"}), CUSTOMERS_LIMIT)

\* lines 314-328
Merged(s1, s2) ==
    LET Unseen(r) == \A n \in 1..Len(s1) : s1[n] # r
    IN s1 \o SelectSeq(s2, Unseen)

\* lines 331-352 and 360-382
Candidates(docs, scan, buyerIds, selectedTier) ==
    LET Keep(b) == /\ \A n \in 1..Len(buyerIds) : buyerIds[n] # b.customerNo
                   /\ b.tier = selectedTier
    IN SelectSeq([n \in 1..Len(scan) |-> BuyerOf(docs, scan[n])], Keep)

\* list.sort((a, b) => b.sales25 - a.sales25): the sort is stable
RECURSIVE InsertBySales(_, _)
InsertBySales(sorted, b) ==
    IF sorted = <<>> THEN <<b>>
    ELSE IF b.sales25 > Head(sorted).sales25 THEN <<b>> \o sorted
    ELSE <<Head(sorted)>> \o InsertBySales(Tail(sorted), b)

RECURSIVE SortBySales(_)
SortBySales(list) ==
    IF list = <<>> THEN <<>>
    ELSE InsertBySales(SortBySales(SubSeq(list, 1, Len(list) - 1)), list[Len(list)])

\* lines 104-109: a line among the first 25 carries a description
DescInLines(docs, snap) ==
    \E n \in 1..Len(Limit(snap, DESC_SCAN)) :
        cleanStr(Field(docs[snap[n]], "itemCodeDesc")) # <<>>

\* everything but the state of the lookup service
outsideLookup ==
    <<cfg, fileVars, run, pc, cutoff, hhVars, hdVars, windowVars, hBatchVars, merchVars,
      lBatchVars, totalsVars, commits, faults, store, solo, obsVars, setVars, ix>>

NoResponse == [status |-> 0, buyers |-> <<>>, opportunities |-> <<>>]

\* GET is called with the parameters of req; env tells whether the credentials
\* of lines 8-10 are set
Request(req) ==
    [pc |-> "start", req |-> req,
     itemCode |-> <<>>, onePerTier |-> FALSE, selectedTier |-> "null", oppCount |-> NaN,
     repNo |-> <<>>, linesSnap |-> <<>>, invoiceIdList |-> <<>>, buyerIds |-> <<>>,
     buyersRaw |-> <<>>, buyers |-> <<>>, scan |-> <<>>, opportunities |-> <<>>,
     failure |-> "none", response |-> NoResponse]

\* NextResponse.json({ buyers: [], opportunities: [] })
Empty(l) ==
    [l EXCEPT !.pc = "done",
              !.response = [status |-> 200, buyers |-> <<>>, opportunities |-> <<>>]]

\* the catch of lines 406-412
Failed(l, why) ==
    [l EXCEPT !.pc = "done", !.failure = why,
              !.response = [status |-> 500, buyers |-> <<>>, opportunities |-> <<>>]]

\* lines 156-182
LkStart ==
    /\ lk.pc = "start"
    /\ LET parsed == [lk EXCEPT
               !.itemCode = cleanStr(ParamOr(lk.req.itemCode, <<>>)),
               !.onePerTier = (ParamOr(lk.req.onePerTier, <<>>) = <<"1">>),
               !.selectedTier = selectedTierOf(lk.req.selectedTier),
               !.oppCount = oppCountOf(lk.req.oppCount),
               !.repNo = normRep(lk.req.salespersonNo)]
       IN lk' = IF ~lk.req.env THEN Failed(lk, "auth")
                ELSE IF parsed.itemCode = <<>> THEN Empty(parsed)
                ELSE [parsed EXCEPT !.pc = "lines"]
    /\ UNCHANGED outsideLookup

\* lines 191-197 and 207-209
LkLines ==
    /\ lk.pc = "lines"
    /\ LET snap == LinesExact(store, lk.itemCode)
       IN lk' = IF snap # <<>> THEN [lk EXCEPT !.pc = "invoices", !.linesSnap = snap]
                ELSE IF HasDoubleUnderscore(lk.itemCode) THEN Empty(lk)
                ELSE [lk EXCEPT !.pc = "prefix"]
    /\ UNCHANGED outsideLookup

\* lines 199-209
LkPrefix ==
    /\ lk.pc = "prefix"
    /\ LET snap == LinesPrefix(store, lk.itemCode)
       IN lk' = IF snap = <<>> THEN Empty(lk)
                ELSE [lk EXCEPT !.pc = "invoices", !.linesSnap = snap]
    /\ UNCHANGED outsideLookup

\* lines 212-249
LkInvoices ==
    /\ lk.pc = "invoices"
    /\ LET ids      == InvoiceIdsOf(store, lk.linesSnap, <<>>)
           asked    == Limit(ids, INVOICES_LIMIT)
           buyerIds == BuyerIdsOf(store, asked, <<>>)
       IN lk' = IF ids = <<>> THEN Empty(lk)
                ELSE IF \E n \in 1..Len(asked) : ~IsDocumentPath(asked[n])
                THEN Failed([lk EXCEPT !.invoiceIdList = ids], "path")
                ELSE IF buyerIds = <<>> THEN Empty([lk EXCEPT !.invoiceIdList = ids])
                ELSE [lk EXCEPT !.pc = "buyers", !.invoiceIdList = ids,
                                !.buyerIds = buyerIds]
    /\ UNCHANGED outsideLookup

\* lines 252-296
LkBuyers ==
    /\ lk.pc = "buyers"
    /\ LET asked     == Limit(lk.buyerIds, BUYERS_LIMIT)
           buyersRaw == OwnedBy(BuyersOf(store, asked), lk.repNo)
       IN lk' = IF \E n \in 1..Len(asked) : ~IsDocumentPath(asked[n])
                THEN Failed(lk, "path")
                ELSE [lk EXCEPT !.pc = IF lk.selectedTier # "null" THEN "opps" ELSE "desc",
                                !.buyersRaw = buyersRaw,
                                !.buyers = IF lk.onePerTier THEN OnePerTier(buyersRaw)
                                           ELSE buyersRaw]
    /\ UNCHANGED outsideLookup

\* lines 301-388
LkOpps ==
    /\ lk.pc = "opps"
    /\ LET scan == IF lk.repNo # <<>>
                   THEN Merged(CustomersWhere(store, "salespersonNo", lk.repNo),
                               CustomersWhere(store, "salespersonNo2", lk.repNo))
                   ELSE AllCustomers(store)
       IN lk' = [lk EXCEPT !.pc = "desc", !.scan = scan,
                           !.opportunities =
                               SliceTo(SortBySales(Candidates(store, scan, lk.buyerIds,
                                                              lk.selectedTier)),
                                       lk.oppCount)]
    /\ UNCHANGED outsideLookup

\* lines 390-405
LkRespond ==
    /\ lk.pc = "desc"
    /\ lk' = [lk EXCEPT !.pc = "done",
                        !.response = [status |-> 200, buyers |-> lk.buyers,
                                      opportunities |-> lk.opportunities]]
    /\ UNCHANGED outsideLookup

\* the handler is at a read of the store (lines 191-204, 237, 255, 312, 359 and
\* 112-145): its references were built, and the description is not on a line
AtRead(l, docs) ==
    CASE l.pc \in {"lines", "prefix", "opps"} -> TRUE
      [] l.pc = "invoices" ->
            LET asked == Limit(InvoiceIdsOf(docs, l.linesSnap, <<>>), INVOICES_LIMIT)
            IN \A n \in 1..Len(asked) : IsDocumentPath(asked[n])
      [] l.pc = "buyers" ->
            LET asked == Limit(l.buyerIds, BUYERS_LIMIT)
            IN \A n \in 1..Len(asked) : IsDocumentPath(asked[n])
      [] l.pc = "desc" -> ~DescInLines(docs, l.linesSnap)
      [] OTHER -> FALSE

\* a read of the store rejects
LkReadFails ==
    /\ cfg.faults > 0
    /\ AtRead(lk, store)
    /\ lk' = Failed(lk, "store")
    /\ UNCHANGED outsideLookup

NextLookup ==
    \/ LkStart
    \/ LkLines
    \/ LkPrefix
    \/ LkInvoices
    \/ LkBuyers
    \/ LkOpps
    \/ LkRespond
    \/ LkReadFails

----------------------------------------------------------------------------
(* Specifications *)

\* What an earlier run, over files that held invoice A-1 with a line 9 of 8.00,
\* has left in the store
LegacyStore ==
    LET h == HRow(TAd1, DIn, <<"C", "9">>, <<"9">>, <<"1">>, <<>>)
        d == DRow(TAd1, <<"9">>, <<"Z">>, <<>>, <<"8">>)
    IN ApplyWrites(NoDocs,
         << [ref |-> HeaderRef(normalizeDocId(TAd1)),
             data |-> HeaderPayload(h, TAd1, parseUSDate(DIn), 1)],
            [ref |-> LineRef(normalizeDocId(TAd1), makeLineId(TAd1, <<"9">>, 1)),
             data |-> LinePayload(d, TAd1, 1)],
            [ref |-> HeaderRef(normalizeDocId(TAd1)),
             data |-> TotalsPayload(TAd1, 800, [k \in {TAd1} |-> 100], [k \in {TAd1} |-> 0])] >>,
         0)

\* One run over files of an in-window invoice A/1 and an invoice B dated before
\* the cutoff, with three different lines of A/1 and a line of B
CoreHeaderRows == {r \in HeaderRows : r.InvoiceNo = TA1 \/ r.InvoiceDate = DOld}

CoreDetailRows == {r \in DetailRows : r.InvoiceNo \in {TA1, TB} /\ r.LineKey # <<"3">>}

Init == InitWith([hhPool |-> CoreHeaderRows, hdPool |-> CoreDetailRows, files |-> FilesOk,
                  faults |-> MaxFaults, errors |-> {"UNAVAILABLE", "PERMISSION_DENIED"},
                  lostAcks |-> {FALSE}, record |-> FALSE, runs |-> 1,
                  stores |-> {NoDocs, LegacyStore}])

Next ==
    \/ HeaderRow
    \/ HeaderEnd
    \/ LineRow
    \/ LineEnd
    \/ Finalizer
    \/ \E a \in {"hdrCb", "lineCb"} : CallbackCommitOk(a)
    \/ MainCommitOk
    \/ \E a \in Awaiters : CommitRetried(a)
    \/ \E a \in Awaiters : BackoffElapsed(a)
    \/ \E a \in {"hdrCb", "lineCb"} : CallbackCommitThrows(a)
    \/ MainCommitThrows

Spec == Init /\ [][Next]_vars

\* One run over files of two in-window invoices, A/1 and A-1, whose documents have
\* the same id, with lines of both
TotalsHeaderRows == {r \in HeaderRows : r.InvoiceNo \in {TA1, TAd1}}

TotalsDetailRows ==
    {r \in DetailRows : r.InvoiceNo \in {TA1, TAd1} /\ r.LineKey \in {<<"1">>, <<"2">>}}

InitTotals == InitWith([hhPool |-> TotalsHeaderRows, hdPool |-> TotalsDetailRows, files |-> FilesOk,
                        faults |-> MaxFaults,
                        errors |-> {"UNAVAILABLE", "PERMISSION_DENIED"},
                        lostAcks |-> {FALSE}, record |-> FALSE, runs |-> 1,
                        stores |-> {NoDocs, LegacyStore}])

SpecTotals == InitTotals /\ [][Next]_vars

\* The importer run twice over the same files of an in-window invoice A/1 and
\* three different lines of it; the first run may be ended at any point
RerunHeaderRows == {r \in HeaderRows : r.InvoiceNo = TA1}

RerunDetailRows == {r \in DetailRows : r.InvoiceNo = TA1 /\ r.LineKey # <<"3">>}

InitRerun == InitWith([hhPool |-> RerunHeaderRows, hdPool |-> RerunDetailRows, files |-> FilesOk,
                       faults |-> MaxFaults,
                       errors |-> {"UNAVAILABLE", "PERMISSION_DENIED"},
                       lostAcks |-> {FALSE}, record |-> FALSE, runs |-> 2,
                       stores |-> {NoDocs}])

NextRerun == Next \/ Restart

SpecRerun == InitRerun /\ [][NextRerun]_vars

\* One run over files of an in-window invoice A/1 and one line of it, in which
\* as many commit attempts may fail as one commitWithRetry call can make, and a
\* failed attempt may have been applied by the server
RetryHeaderRows == {r \in HeaderRows : r.InvoiceNo = TA1}

RetryDetailRows == {r \in DetailRows : r.InvoiceNo = TA1 /\ r.LineKey = <<"1">>}

InitRetry == InitWith([hhPool |-> RetryHeaderRows, hdPool |-> RetryDetailRows, files |-> FilesOk,
                       faults |-> RETRY_LIMIT + 1,
                       errors |-> {"ABORTED", "UNAVAILABLE", "INVALID_ARGUMENT"},
                       lostAcks |-> BOOLEAN, record |-> TRUE, runs |-> 1,
                       stores |-> {NoDocs}])

SpecRetry == InitRetry /\ [][Next]_vars

\* One index build over files of invoices A/1 (two header rows with different
\* accounts), A-1 and B (dated before the cutoff), with lines of items P/Q, P-Q
\* and p/q, on an empty index or on one that an earlier build has left
C0 == <<"C", "0">>

IndexHeaderRows ==
    {r \in HeaderRows : r.InvoiceNo \in {TA1, TAd1} \/ r.InvoiceDate = DOld}
        \cup {HRow(TA1, DIn, C0, <<"7">>, <<>>, <<>>)}

IndexDetailRows ==
    { DRow(TA1,  <<"1">>, <<"P", "/", "Q">>, <<>>, <<"1">>),
      DRow(TAd1, <<"1">>, <<"P", "-", "Q">>, <<>>, <<"1">>),
      DRow(TAd1, <<"2">>, <<"p", "/", "q">>, <<>>, <<"1">>),
      DRow(TB,   <<"1">>, <<"P", "/", "Q">>, <<>>, <<"1">>) }

\* the files of at most MaxRows rows of a pool
FilesOf(pool) == UNION {[1..n -> pool] : n \in 0..MaxRows}

LegacyIndex ==
    ApplyWrites(NoDocs,
        << [ref  |-> IndexRef(normalizeDocId(IndexKey(<<"P", "-", "Q">>, <<"0", "0", "0", "7">>))),
            data |-> IndexPayload([itemCode |-> <<"P", "-", "Q">>,
                                   salespersonNo |-> <<"0", "0", "0", "7">>,
                                   customers |-> << <<"C", "9">> >>])] >>,
        0)

\* the index builder is started: lines 122-135
IxStart == [IxOff EXCEPT !.pc = "headers", !.i = 1]

InitIndex ==
    \E hh \in FilesOf(IndexHeaderRows), hd \in FilesOf(IndexDetailRows) :
        StartWith([hhPool |-> IndexHeaderRows, hdPool |-> IndexDetailRows, files |-> FilesOk,
                   faults |-> MaxFaults, errors |-> {"ABORTED", "UNAVAILABLE"},
                   lostAcks |-> {FALSE}, record |-> FALSE, runs |-> 1,
                   stores |-> {NoDocs, LegacyIndex}],
                  hh, hd, TRUE, "off", IxStart)
        /\ lk = LkOff

NextIndex ==
    \/ IxHeaderRow
    \/ IxHeadersDone
    \/ IxLineRow
    \/ IxLinesDone
    \/ IxWrite
    \/ IxWriteDone
    \/ IxCommitOk
    \/ IxCommitRetried
    \/ IxBackoffElapsed
    \/ IxCommitThrows

SpecIndex == InitIndex /\ [][NextIndex]_vars

\* Requests to the lookup service over a store of customers X, Y, Z (band A,
\* owner 0007, sales X > Y > Z), U (band A, second owner 0007), W (band B, owner
\* stored as 7), S (band C), V (band D) and T (no sales field, owner 0008), and
\* of any of six invoices with one line each: item K1 bought on I1 by X, on I2
\* by W, on I3 by V and on I4 by Y; K1 on I5, which has no header; K12 on I6 by
\* X; K2 on A/1 by X
Acct(id, rep, rep2, sales) ==
    [ref  |-> CustomerRef(normalizeDocId(id)),
     data |-> [customerNo |-> id, salespersonNo |-> rep, salespersonNo2 |-> rep2,
               udf_25TotalSales |-> sales, updatedAt |-> 0]]

HeaderDoc(no, cust, rep) ==
    [ref  |-> HeaderRef(normalizeDocId(no)),
     data |-> HeaderPayload(HRow(no, DIn, cust, rep, <<>>, <<>>), no, parseUSDate(DIn), 1)]

LineDoc(no, key, item, desc) ==
    [ref  |-> LineRef(normalizeDocId(no), makeLineId(no, key, 1)),
     data |-> LinePayload(DRow(no, key, item, desc, <<"1">>), no, 1)]

\* the documents of a set of writes to different references
DocsOf(W) == [r \in {w.ref : w \in W} |-> (CHOOSE w \in W : w.ref = r).data]

R7 == <<"0", "0", "0", "7">>

LookupAccounts ==
    { Acct(<<"X">>, R7, R7, <<"1", "2", "0", "0", "0">>),
      Acct(<<"Y">>, R7, <<>>, <<"$", "1", "1", ",", "0", "0", "0", ".", "5", "0">>),
      Acct(<<"Z">>, R7, <<>>, <<"1", "0", "0", "0", "0">>),
      Acct(<<"U">>, <<"0", "0", "0", "9">>, R7, <<"1", "0", "5", "0", "0">>),
      Acct(<<"W">>, <<"7">>, <<>>, <<"9", "9", "9", "9", ".", "9", "9">>),
      Acct(<<"S">>, R7, <<>>, <<"2", "0", "0", "0">>),
      Acct(<<"V">>, R7, <<>>, <<"0">>),
      [ref  |-> CustomerRef(<<"T">>),
       data |-> [customerNo |-> <<"T">>, salespersonNo |-> <<"0", "0", "0", "8">>,
                 updatedAt |-> 0]] }

K1 == <<"K", "1">>

LookupInvoices ==
    { {HeaderDoc(<<"I", "1">>, <<"X">>, <<"7">>), LineDoc(<<"I", "1">>, <<"1">>, K1, <<>>)},
      {HeaderDoc(<<"I", "2">>, <<"W">>, <<"7">>), LineDoc(<<"I", "2">>, <<"1">>, K1, <<>>)},
      {HeaderDoc(<<"I", "3">>, <<"V">>, <<"7">>), LineDoc(<<"I", "3">>, <<"1">>, K1, <<"k">>)},
      {HeaderDoc(<<"I", "4">>, <<"Y">>, <<"7">>), LineDoc(<<"I", "4">>, <<"1">>, K1, <<>>)},
      {LineDoc(<<"I", "5">>, <<"1">>, K1, <<>>)},
      {HeaderDoc(<<"I", "6">>, <<"X">>, <<"7">>),
       LineDoc(<<"I", "6">>, <<"1">>, <<"K", "1", "2">>, <<>>)},
      {HeaderDoc(TA1, <<"X">>, <<"7">>), LineDoc(TA1, <<"1">>, <<"K", "2">>, <<>>)} }

LookupStores == {DocsOf(LookupAccounts \cup UNION B) : B \in SUBSET LookupInvoices}

LookupRequests ==
    [itemCode      : {Undefined, K1, <<"K">>, <<"K", "2">>},
     onePerTier    : {Undefined, <<"1">>},
     selectedTier  : {Undefined, <<"a">>},
     oppCount      : {Undefined, <<"1">>, <<"-", "1">>},
     salespersonNo : {Undefined, <<"7">>},
     env           : BOOLEAN]

\* a request is served from the store s, whose reads may fail when faults > 0
LookupOn(s, req, nFaults) ==
    /\ StartWith([hhPool |-> {}, hdPool |-> {}, files |-> FilesOk, faults |-> nFaults,
                  errors |-> {"UNAVAILABLE"}, lostAcks |-> {FALSE}, record |-> FALSE,
                  runs |-> 1, stores |-> {s}],
                 <<>>, <<>>, TRUE, "off", IxOff)
    /\ lk = Request(req)

InitLookup ==
    \E s \in LookupStores, req \in LookupRequests : LookupOn(s, req, MaxFaults)

SpecLookup == InitLookup /\ [][NextLookup]_vars

----------------------------------------------------------------------------
(* What the properties below speak of *)

RECURSIVE SumOver(_, _)
SumOver(S, f) ==
    IF S = {} THEN 0
    ELSE LET x == CHOOSE y \in S : TRUE IN f[x] + SumOver(S \ {x}, f)

KeyOf(r) == cleanStr(ciGet(r, "InvoiceNo"))

HeaderDateOf(r) == parseUSDate(cleanStr(Coalesce(ciGet(r, "InvoiceDate"), ciGet(r, "Date"))))

\* the header row passes the tests of lines 212 and 216
HeaderPasses(r) == KeyOf(r) # <<>> /\ ~OutOfRange(HeaderDateOf(r), cutoff)

\* the detail row passes the tests of lines 287 and 305
LinePasses(r) == ParentInRange(KeyOf(r), inRangeInvoiceNos) /\ ~IsNoise(r)

\* the date lies in [now - yearsBack, now]
InWindow(d) == ~d.isNull /\ cutoff <= d.day /\ d.day <= NewDate(Today[1], Today[2], Today[3])

\* the header file holds a header of the detail row's invoice, dated in the window
ParentInWindow(r) ==
    /\ KeyOf(r) # <<>>
    /\ \E j \in 1..Len(hhFile) : KeyOf(hhFile[j]) = KeyOf(r) /\ InWindow(HeaderDateOf(hhFile[j]))

\* where the documents of header row i and detail row i go
HeaderDocOf(i) == HeaderRef(normalizeDocId(KeyOf(hhFile[i])))

LineDocOf(i) ==
    LineRef(normalizeDocId(KeyOf(hdFile[i])),
            makeLineId(KeyOf(hdFile[i]), LineKeyOf(hdFile[i]), i))

\* the writes of detail documents among the writes ws
LineWrites(ws) == {ws[n] : n \in {m \in 1..Len(ws) : ws[m].ref.line # <<>>}}

PendingLineWrites ==
    LineWrites(lineBatch.writes) \cup LineWrites(commits["lineCb"].writes)
        \cup LineWrites(commits["main"].writes)

\* a document of this run
WrittenNow(ref) == ref \in DOMAIN store /\ store[ref].importedAt = run

----------------------------------------------------------------------------
(* C1 *)

\* C1 (window correctness): when a run has completed, the store holds a detail
\* document for a detail row of the file if and only if the header file holds a
\* header of that row's invoice dated within [now - yearsBack, now].
C1_DetailDocIffParentInWindow ==
    RunComplete =>
        \A i \in 1..Len(hdFile) :
            (LineDocOf(i) \in DOMAIN store) <=> ParentInWindow(hdFile[i])

----------------------------------------------------------------------------
(* C2 *)

\* the detail write names an invoice the header pass of this run accepted, and
\* belongs to the detail row it names
ParentAccepted(ref, data) ==
    /\ data.invoiceNo # <<>>
    /\ data.invoiceNo \in inRangeInvoiceNos
    /\ ref.doc = normalizeDocId(data.invoiceNo)
    /\ data.rowIndex \in 1..hdRowCount
    /\ KeyOf(hdFile[data.rowIndex]) = data.invoiceNo
    /\ \E j \in 1..hhRowCount :
          KeyOf(hhFile[j]) = data.invoiceNo /\ ~OutOfRange(HeaderDateOf(hhFile[j]), cutoff)

\* C2 (detail documents have accepted parents): in every state of a run, every
\* detail write that is in a batch or in a commit, and every detail document the
\* run has stored, carries a parent key that the header pass of the same run put
\* into inRangeInvoiceNos; so no row with a missing or unaccepted key is written.
C2_DetailParentAccepted ==
    /\ \A w \in PendingLineWrites : ParentAccepted(w.ref, w.data)
    /\ \A ref \in DOMAIN store :
          (ref.line # <<>> /\ WrittenNow(ref)) => ParentAccepted(ref, store[ref])

\* a detail document has been stored and a row of an unaccepted parent was read
C2_Witness ==
    /\ \E ref \in DOMAIN store : ref.line # <<>> /\ WrittenNow(ref)
    /\ \E i \in 1..hdRowCount : ~ParentInRange(KeyOf(hdFile[i]), inRangeInvoiceNos)

----------------------------------------------------------------------------
(* C3 *)

\* the detail documents stored under a header document
LinesUnder(doc) == {ref \in DOMAIN store : ref.line # <<>> /\ ref.doc = doc}

\* C3 as stated (merchTotal is the sum of the stored detail documents): when a run
\* has completed, every header document with at least one detail document under
\* it has a merchTotal equal to the sum of the extensionAmt of those documents.
C3_TotalIsSumOfStoredLines ==
    RunComplete =>
        \A ref \in DOMAIN store :
            (ref.line = <<>> /\ LinesUnder(ref.doc) # {}) =>
                /\ "merchTotal" \in DOMAIN store[ref]
                /\ store[ref].merchTotal =
                       SumOver(LinesUnder(ref.doc),
                               [l \in LinesUnder(ref.doc) |-> store[l].extensionAmt])

\* of the invoice numbers with an enqueued detail row that share the document id of
\* k, the one whose first detail row came last
LastKeyFor(k) ==
    LET same == {n \in 1..Len(merchOrder) : normalizeDocId(merchOrder[n]) = normalizeDocId(k)}
    IN merchOrder[CHOOSE n \in same : \A m \in same : m <= n]

\* the sum of parseNumber(ExtensionAmt) over the detail rows of invoice k that the
\* run enqueued
EnqueuedSum(k) ==
    SumOver({i \in linesSet : KeyOf(hdFile[i]) = k},
            [i \in linesSet |-> parseNumber(ciGet(hdFile[i], "ExtensionAmt"))])

\* C3 (amended: merchTotal is the sum over the rows the run enqueued): when a run
\* has completed, for every invoice number of which the run enqueued a detail row,
\* the header document of that number has a merchTotal equal to the sum of
\* parseNumber(ExtensionAmt) over the detail rows the run enqueued for the invoice
\* number (the last one in order of first row, when several share the document id).
C3_TotalIsSumOfEnqueuedRows ==
    RunComplete =>
        \A k \in DOMAIN merchTotals :
            LET ref == HeaderRef(normalizeDocId(k))
            IN /\ ref \in DOMAIN store
               /\ "merchTotal" \in DOMAIN store[ref]
               /\ store[ref].merchTotal = EnqueuedSum(LastKeyFor(k))

\* a completed run has stored 2510.50 as the total of lines 10.50 and "$25,00"
C3_Witness ==
    /\ RunComplete
    /\ \E k \in DOMAIN merchTotals :
          /\ Cardinality({i \in linesSet : KeyOf(hdFile[i]) = k}) = 2
          /\ store[HeaderRef(normalizeDocId(k))].merchTotal = 251050

----------------------------------------------------------------------------
(* C4, C5 *)

\* a document without the fields the server stamps
Unstamped(d) == [f \in (DOMAIN d) \ TimestampFields |-> d[f]]

\* the same documents with the same contents, server timestamps apart
SameDocuments(a, b) ==
    /\ DOMAIN a = DOMAIN b
    /\ \A ref \in DOMAIN a : Unstamped(a[ref]) = Unstamped(b[ref])

\* C4 (idempotence): when a run completes that was started after a completed run
\* over the same files, the store holds the documents the first run left, with
\* the same contents (server timestamps apart), none added.
C4_SecondRunChangesNothing ==
    (run = 2 /\ previous.ended = "complete" /\ RunComplete) =>
        SameDocuments(store, previous.store)

\* C5 (crash recovery): when a run completes that was started after a run over
\* the same files was ended before its end, the store holds what the completed
\* run alone leaves on the store the first run found.
C5_RerunAfterKillConverges ==
    (run = 2 /\ previous.ended = "killed" /\ RunComplete) =>
        SameDocuments(store, solo)

----------------------------------------------------------------------------
(* C6 *)

\* the header row is dated on or after the cutoff and names an invoice, an
\* account and an owner
IndexHeaderUsable(j) ==
    /\ IndexInvoiceNo(hhFile[j]) # <<>>
    /\ ~OutOfRange(HeaderDateOf(hhFile[j]), cutoff)
    /\ IndexCustomerNo(hhFile[j]) # <<>>
    /\ IndexSalespersonNo(hhFile[j]) # <<>>

\* seq lists the members of S in ascending order, each once
IsSortedListOf(seq, S) ==
    /\ {seq[n] : n \in 1..Len(seq)} = S
    /\ \A n \in 1..(Len(seq) - 1) : TextLess(seq[n], seq[n + 1])

PairDocOf(p) == IndexRef(normalizeDocId(IndexKey(p[1], p[2])))

\* a detail row with an item and a usable header row of its invoice
ClaimSales ==
    {t \in (1..Len(hdFile)) \X (1..Len(hhFile)) :
        /\ IndexItemCode(hdFile[t[1]]) # <<>>
        /\ IndexHeaderUsable(t[2])
        /\ IndexInvoiceNo(hdFile[t[1]]) = IndexInvoiceNo(hhFile[t[2]])}

ClaimPairOf(t) == <<IndexItemCode(hdFile[t[1]]), IndexSalespersonNo(hhFile[t[2]])>>

ClaimAccounts(p) == {IndexCustomerNo(hhFile[t[2]]) : t \in {u \in ClaimSales : ClaimPairOf(u) = p}}

\* C6 as stated (index completeness): after an index build, for every (item code,
\* owner code) pair with a detail row whose header is in the window, the entry of
\* the pair lists, sorted and without duplicates, exactly the accounts of the
\* in-window headers with a line of that item under that owner, and customerCount
\* is the length of the list.
C6_IndexComplete ==
    ix.pc = "done" =>
        \A p \in {ClaimPairOf(t) : t \in ClaimSales} :
            /\ PairDocOf(p) \in DOMAIN store
            /\ IsSortedListOf(store[PairDocOf(p)].customerNos, ClaimAccounts(p))
            /\ store[PairDocOf(p)].customerCount = Len(store[PairDocOf(p)].customerNos)

\* The join the build computes, told row by row: every detail row with an item
\* whose invoice has a usable header row, with the pair and the account that the
\* last usable header row of the invoice gives it
IndexJoin ==
    LET usable == {j \in 1..Len(hhFile) : IndexHeaderUsable(j)}
        last   == [i \in 1..Len(hdFile) |->
                      LET mine == {j \in usable :
                                      IndexInvoiceNo(hhFile[j]) = IndexInvoiceNo(hdFile[i])}
                      IN IF mine = {} THEN 0
                         ELSE CHOOSE j \in mine : \A m \in mine : m <= j]
        sales  == {i \in 1..Len(hdFile) : IndexItemCode(hdFile[i]) # <<>> /\ last[i] # 0}
    IN [i \in sales |->
           [pair    |-> <<IndexItemCode(hdFile[i]), IndexSalespersonNo(hhFile[last[i]])>>,
            account |-> IndexCustomerNo(hhFile[last[i]])]]

\* the first detail row of pair p in the join
FirstLineOf(join, p) ==
    CHOOSE i \in DOMAIN join :
        join[i].pair = p /\ \A n \in DOMAIN join : join[n].pair = p => i <= n

\* of the pairs whose entries have the document of p, the one that occurs last
LastPairAt(join, p) ==
    LET same  == {q \in {join[i].pair : i \in DOMAIN join} : PairDocOf(q) = PairDocOf(p)}
        first == [q \in same |-> FirstLineOf(join, q)]
    IN CHOOSE q \in same : \A r \in same : first[r] <= first[q]

AccountsOf(join, p) == {join[i].account : i \in {n \in DOMAIN join : join[n].pair = p}}

\* C6 (amended: index entries): after an index build has completed, for every pair
\* (item code in upper case, owner code padded) of a detail row with an item whose
\* invoice has a header row dated on or after the cutoff with an account and an
\* owner, taking for each invoice the last such header row: the document with the
\* pair's id holds the entry of the pair with that id whose first detail row comes
\* last in the file: its item and owner, the sorted duplicate-free list of exactly
\* its accounts, and customerCount equal to the length of the list.
C6_IndexEntries ==
    ix.pc = "done" =>
        LET join == IndexJoin
        IN \A p \in {join[i].pair : i \in DOMAIN join} :
              LET w == LastPairAt(join, p)
              IN /\ PairDocOf(p) \in DOMAIN store
                 /\ store[PairDocOf(p)].itemCode = w[1]
                 /\ store[PairDocOf(p)].salespersonNo = w[2]
                 /\ IsSortedListOf(store[PairDocOf(p)].customerNos, AccountsOf(join, w))
                 /\ store[PairDocOf(p)].customerCount = Len(store[PairDocOf(p)].customerNos)
                 /\ store[PairDocOf(p)].updatedAt = run

\* a completed build has stored an entry with two accounts
C6_Witness ==
    /\ ix.pc = "done"
    /\ LET join == IndexJoin
       IN \E p \in {join[i].pair : i \in DOMAIN join} :
             /\ Cardinality(AccountsOf(join, LastPairAt(join, p))) = 2
             /\ store[PairDocOf(p)].customerCount = 2

----------------------------------------------------------------------------
(* C7 *)

\* a retry follows only a transient failure of one of the first RETRY_LIMIT
\* attempts, after a wait of 250 * attempt^2 ms; no call makes more than
\* RETRY_LIMIT + 1 attempts
C7_RetryBounded ==
    \A a \in Awaiters :
        /\ commits[a].attempt <= RETRY_LIMIT + 1
        /\ commits[a].phase = "backoff" =>
              /\ IsTransient(commits[a].err)
              /\ commits[a].attempt <= RETRY_LIMIT
              /\ commits[a].waitMs = 250 * commits[a].attempt * commits[a].attempt

\* a call throws only an error that is not transient, or the error of attempt
\* RETRY_LIMIT + 1
C7_ThrowsWhenDue ==
    settled.result = "thrown" =>
        ~IsTransient(settled.err) \/ settled.attempt = RETRY_LIMIT + 1

\* after a call has returned, every document of its batch is in the store
C7_BatchStored ==
    settled.result = "ok" =>
        \A n \in 1..Len(settled.writes) : settled.writes[n].ref \in DOMAIN store

\* a call that has used up its attempts ends the run
C7_ExhaustedIsFatal ==
    (settled.result = "thrown" /\ IsTransient(settled.err)) => pc = "fatal"

\* C7 (commitWithRetry): a commit is retried only after a transient failure, after
\* a wait of 250 * attempt^2 ms, and a bounded number of times; when an attempt
\* succeeds every document of the batch is in the store; when the attempts are
\* used up the error ends the run.
C7_CommitWithRetry ==
    C7_RetryBounded /\ C7_ThrowsWhenDue /\ C7_BatchStored /\ C7_ExhaustedIsFatal

----------------------------------------------------------------------------
(* C8 *)

\* C8 (a commit failure that is not transient is fatal): once a commitWithRetry
\* call has thrown an error that is not transient, the run has ended with that
\* error, in whichever pass and from whichever caller the commit was started.
C8_NonTransientIsFatal ==
    (thrown # "none" /\ ~IsTransient(thrown)) => pc = "fatal"

----------------------------------------------------------------------------
(* C9 *)

\* C9 (rows processed during a commit are enqueued): every row read so far that
\* passes the filters of its pass has had its write added to a batch, also when
\* a commit was in flight or in backoff while the row was processed.
C9_PassingRowsEnqueued ==
    /\ \A i \in 1..hhRowCount : HeaderPasses(hhFile[i]) => i \in headersSet
    /\ pc = "line" => \A i \in 1..hdRowCount : LinePasses(hdFile[i]) => i \in linesSet

----------------------------------------------------------------------------
(* C10 *)

HeaderPassDone ==
    /\ hhClosed /\ hhRowCount = Len(hhFile)
    /\ inRangeInvoiceNos = {KeyOf(hhFile[j]) : j \in {i \in 1..Len(hhFile) : HeaderPasses(hhFile[i])}}
    /\ \A i \in headersSet : WrittenNow(HeaderDocOf(i))

DetailPassDone ==
    /\ hdClosed /\ hdRowCount = Len(hdFile)
    /\ DOMAIN merchTotals = {KeyOf(hdFile[i]) : i \in linesSet}
    /\ \A k \in DOMAIN merchTotals :
          merchTotals[k] = SumOver({i \in linesSet : KeyOf(hdFile[i]) = k},
                                   [i \in linesSet |-> parseNumber(ciGet(hdFile[i], "ExtensionAmt"))])
    /\ \A i \in linesSet : WrittenNow(LineDocOf(i))

\* C10 (pass ordering): a detail row is examined only after the header pass has
\* read every header row, completed inRangeInvoiceNos and stored every header
\* write it enqueued; a totals write is enqueued only after the detail pass has
\* read every detail row, added its amount to merchTotals and stored every
\* detail write it enqueued.
C10_PassOrder ==
    /\ (hdRowCount > 0 \/ pc = "line") => HeaderPassDone
    /\ (totalsUpdated > 0 \/ totalsBatch.writes # <<>> \/ pc = "totals") => DetailPassDone

\* a run that wrote headers, lines and totals has completed
C10_Witness ==
    RunComplete /\ headersSet # {} /\ linesSet # {} /\ totalsUpdated > 0

----------------------------------------------------------------------------
(* C11 *)

\* One run of the importer, or one index build
InitBatches == Init \/ InitIndex

NextBatches == Next \/ NextIndex

SpecBatches == InitBatches /\ [][NextBatches]_vars

\* the ceiling of the program that runs
CeilingInForce == IF ix.pc = "off" THEN BATCH_LIMIT ELSE INDEX_BATCH_LIMIT

\* no batch, filled or being committed, holds more writes than the ceiling
C11_AtMostCeiling ==
    /\ \A a \in Awaiters : Len(commits[a].writes) <= CeilingInForce
    /\ Len(headerBatch.writes) <= BATCH_LIMIT
    /\ Len(lineBatch.writes) <= BATCH_LIMIT
    /\ Len(totalsBatch.writes) <= BATCH_LIMIT
    /\ Len(ix.batch.writes) <= INDEX_BATCH_LIMIT

\* the ceilings of the runs examined are not above those of the source, which
\* are below the limit of the store
C11_CeilingBelowStoreLimit ==
    /\ BATCH_LIMIT <= DEFAULT_BATCH_LIMIT
    /\ INDEX_BATCH_LIMIT <= SOURCE_INDEX_BATCH_LIMIT
    /\ DEFAULT_BATCH_LIMIT < FIRESTORE_BATCH_LIMIT
    /\ SOURCE_INDEX_BATCH_LIMIT < FIRESTORE_BATCH_LIMIT

\* a batch that has reached the ceiling has had commit() called on it
C11_CommittedWhenFull ==
    /\ Len(headerBatch.writes) >= BATCH_LIMIT => headerBatch.committed
    /\ Len(lineBatch.writes) >= BATCH_LIMIT => lineBatch.committed
    /\ Len(totalsBatch.writes) >= BATCH_LIMIT => totalsBatch.committed
    /\ Len(ix.batch.writes) >= INDEX_BATCH_LIMIT => ix.pc \in {"commit", "fatal"}

HeaderPassEnded == pc \in {"line", "lineFlush", "totals", "totalsCommit", "totalsFlush", "done"}

LinePassEnded == pc \in {"totals", "totalsCommit", "totalsFlush", "done"}

\* a document the present run has written with the field of time stamp f
StoredBy(ref, f) ==
    ref \in DOMAIN store /\ f \in DOMAIN store[ref] /\ store[ref][f] = run

\* when a pass has ended, every write added to a batch in it is in the store
C11_NothingBuffered ==
    /\ HeaderPassEnded => \A i \in headersSet : StoredBy(HeaderDocOf(i), "importedAt")
    /\ LinePassEnded => \A i \in linesSet : StoredBy(LineDocOf(i), "importedAt")
    /\ pc = "done" =>
          \A n \in 1..Len(merchOrder) :
              StoredBy(HeaderRef(normalizeDocId(merchOrder[n])), "totalsComputedAt")
    /\ ix.pc = "done" =>
          \A n \in 1..Len(ix.order) :
              StoredBy(IndexRef(normalizeDocId(ix.order[n])), "updatedAt")

----------------------------------------------------------------------------
(* C12 *)

\* the store holds a line of the item under a header of the account
PurchasedBy(docs, itemCode, account) ==
    \E r \in DOMAIN docs :
        /\ IsLine(r)
        /\ Field(docs[r], "itemCode") = itemCode
        /\ HeaderRef(r.doc) \in DOMAIN docs
        /\ Field(docs[HeaderRef(r.doc)], "customerNo") = account

Answered == lk.pc = "done" /\ lk.response.status = 200

\* C12 (opportunities have not bought): no account returned as an opportunity
\* has a line of the queried item code in the store under a header of that
\* account, however many lines, headers and buyers the item has.
C12_OpportunityHasNotBought ==
    Answered =>
        \A n \in 1..Len(lk.response.opportunities) :
            ~PurchasedBy(store, lk.itemCode, lk.response.opportunities[n].customerNo)

----------------------------------------------------------------------------
(* C13 *)

\* the accounts of the store whose primary or secondary owner field holds the
\* owner code of the request
AccountsOfOwner(docs, repNo) ==
    {r \in DOMAIN docs :
        /\ r.coll = "customers"
        /\ \/ Field(docs[r], "salespersonNo") = repNo
           \/ Field(docs[r], "salespersonNo2") = repNo}

\* the count a request asks for: the default of 4 without the parameter, no
\* more than the maximum, and none for a count that is negative or no number
RequestedCount(l) ==
    IF l.oppCount.nan \/ l.oppCount.val < 0 THEN 0 ELSE l.oppCount.val \div 100

Min(a, b) == IF a < b THEN a ELSE b

\* C13 (opportunities of an owner): when a request for a selected tier and an
\* owner is answered, its opportunities are exactly the accounts of the owner
\* (primary or secondary owner field, each account once) whose tier is the
\* selected tier and that are not in the buyer set, in descending order of
\* trailing sales, cut to the requested count.
C13_OpportunitiesOfOwner ==
    (Answered /\ lk.selectedTier # "null" /\ lk.repNo # <<>> /\ lk.buyerIds # <<>>) =>
        LET opps == lk.response.opportunities
            Bought(r) == \E n \in 1..Len(lk.buyerIds) : lk.buyerIds[n] = r.doc
            open == {r \in AccountsOfOwner(store, lk.repNo) :
                        /\ tierFromSales25(toNumber(Field(store[r], "udf_25TotalSales")))
                               = lk.selectedTier
                        /\ ~Bought(r)}
            Sales(r) == toNumber(Field(store[r], "udf_25TotalSales"))
            listed == {CustomerRef(opps[n].customerNo) : n \in 1..Len(opps)}
        IN /\ listed \subseteq open
           /\ Cardinality(listed) = Len(opps)
           /\ Len(opps) = Min(Cardinality(open), RequestedCount(lk))
           /\ \A n \in 1..Len(opps) : opps[n].sales25 = Sales(CustomerRef(opps[n].customerNo))
           /\ \A n \in 1..(Len(opps) - 1) : opps[n].sales25 >= opps[n + 1].sales25
           /\ \A r \in open \ listed : \A n \in 1..Len(opps) : Sales(r) <= opps[n].sales25

----------------------------------------------------------------------------
(* C14 *)

\* Requests with every kind of oppCount over a store where owner 0007 has two
\* more accounts of band A than the maximum count, none of them a buyer:
\* accounts N01, N02, ... with sales 10001, 10002, ...
ManyAccounts ==
    { Acct(<<"N">> \o PadStart(NumStr(n), 2), R7, <<>>, NumStr(10000 + n)) :
          n \in 1..(OPP_COUNT_MAX + 2) }

OppCountStores ==
    { DocsOf(ManyAccounts \cup LookupAccounts \cup UNION B) :
          B \in SUBSET { {HeaderDoc(<<"I", "1">>, <<"X">>, <<"7">>),
                          LineDoc(<<"I", "1">>, <<"1">>, K1, <<>>)},
                         {HeaderDoc(<<"I", "6">>, <<"X">>, <<"7">>),
                          LineDoc(<<"I", "6">>, <<"1">>, <<"K", "1", "2">>, <<>>)} } }

OppCountRequests ==
    [itemCode      : {K1, <<"K">>},
     onePerTier    : {Undefined},
     selectedTier  : {<<"a">>, <<"B">>},
     oppCount      : {Undefined, <<>>, <<"0">>, <<"-", "1">>, <<"a", "b", "c">>,
                      <<"2", ".", "5">>, <<"2", "5">>, <<"3", "0">>},
     salespersonNo : {Undefined, <<"7">>},
     env           : {TRUE}]

InitOppCount ==
    \E s \in OppCountStores, req \in OppCountRequests : LookupOn(s, req, MaxFaults)

SpecOppCount == InitOppCount /\ [][NextLookup]_vars

\* C14 (bounded opportunity count): whatever the oppCount parameter of a
\* request is (absent, empty, zero, negative, no number, a fraction, the
\* maximum or beyond), the opportunities of the answer are no more than the
\* requested count and no more than OPP_COUNT_MAX.
C14_AtMostRequestedCount ==
    Answered =>
        /\ Len(lk.response.opportunities) <= RequestedCount(lk)
        /\ Len(lk.response.opportunities) <= OPP_COUNT_MAX

----------------------------------------------------------------------------
(* C15 *)

\* the band t is the one of the sales s (in hundredths), lower bounds inclusive
InBand(s, t) ==
    /\ t \in {"A", "B", "C", "D"}
    /\ (t = "A") <=> (s >= TIER_A_MIN)
    /\ (t = "B") <=> (TIER_B_MIN <= s /\ s < TIER_A_MIN)
    /\ (t = "C") <=> (TIER_C_MIN <= s /\ s < TIER_B_MIN)
    /\ (t = "D") <=> (s < TIER_C_MIN)

\* sales at, just below and just above each lower bound, and none
SalesSamples ==
    {0, 1} \cup UNION { {m - 1, m, m + 1} : m \in {TIER_A_MIN, TIER_B_MIN, TIER_C_MIN} }

\* the accounts the lookup has put a band on
Banded(l) ==
    {l.buyersRaw[n] : n \in 1..Len(l.buyersRaw)}
        \cup {l.buyers[n] : n \in 1..Len(l.buyers)}
        \cup {l.opportunities[n] : n \in 1..Len(l.opportunities)}
        \cup {l.response.buyers[n] : n \in 1..Len(l.response.buyers)}
        \cup {l.response.opportunities[n] : n \in 1..Len(l.response.opportunities)}

\* C15 (tier bands): tierFromSales25 puts every sales value in exactly one of
\* the four bands, lower bounds inclusive: A from 10000, B from 5000 to below
\* 10000, C from 2000 to below 5000, D below 2000; so 10000 is A, 9999.99 is B
\* and 0 is D, and every account of an answer carries the band of the sales
\* stored for it.
C15_TierBands ==
    /\ \A s \in SalesSamples : InBand(s, tierFromSales25(s))
    /\ tierFromSales25(toNumber(<<"1", "0", "0", "0", "0">>)) = "A"
    /\ tierFromSales25(toNumber(<<"9", "9", "9", "9", ".", "9", "9">>)) = "B"
    /\ tierFromSales25(toNumber(<<"0">>)) = "D"
    /\ \A b \in Banded(lk) :
           /\ InBand(b.sales25, b.tier)
           /\ b.sales25 = toNumber(Field(store[CustomerRef(b.customerNo)], "udf_25TotalSales"))

\* an answer with a buyer just below the bound of A in band B, a buyer without
\* sales in band D and an opportunity at the bound of A in band A
C15_Witness ==
    /\ Answered
    /\ \E b \in Banded(lk) : b.sales25 = TIER_A_MIN /\ b.tier = "A"
    /\ \E b \in Banded(lk) : b.sales25 = TIER_A_MIN - 1 /\ b.tier = "B"
    /\ \E b \in Banded(lk) : b.sales25 = 0 /\ b.tier = "D"

----------------------------------------------------------------------------
(* C16 *)

\* C16 (one buyer per band): when onePerTier is asked for, the buyers of the
\* answer are at most one account per band, in the order A, B, C, D; a band
\* with a buyer of the request is present with one of its buyers of highest
\* trailing sales, and a band without such a buyer is absent.
C16_OnePerTier ==
    (Answered /\ lk.onePerTier /\ lk.buyerIds # <<>>) =>
        LET out == lk.response.buyers
            raw == {lk.buyersRaw[n] : n \in 1..Len(lk.buyersRaw)}
            Rank(t) == CHOOSE n \in 1..4 : TierOrder[n] = t
        IN /\ \A n \in 1..Len(out) : out[n] \in raw
           /\ \A n \in 1..(Len(out) - 1) : Rank(out[n].tier) < Rank(out[n + 1].tier)
           /\ \A b \in raw : \E n \in 1..Len(out) :
                  out[n].tier = b.tier /\ out[n].sales25 >= b.sales25

\* an answer with one buyer per band where two buyers were in the same band
\* and a band had none
C16_Witness ==
    /\ Answered /\ lk.onePerTier
    /\ \E m, n \in 1..Len(lk.buyersRaw) :
           /\ lk.buyersRaw[m].tier = lk.buyersRaw[n].tier
           /\ lk.buyersRaw[m].sales25 < lk.buyersRaw[n].sales25
    /\ Len(lk.response.buyers) = 1
    /\ lk.response.buyers[1].customerNo = <<"X">>

----------------------------------------------------------------------------
(* C17 *)

\* the request ended at a step that found nothing: no item code, no line of
\* the item, no invoice id or no account on the headers read
EndedEmpty(l) ==
    /\ l.pc = "done"
    /\ l.failure = "none"
    /\ l.buyerIds = <<>>

\* C17 (empty is not an error): a request that ends at a step that found
\* nothing is answered with status 200 and empty lists of buyers and
\* opportunities; a request that met a failure of the store or of its
\* credentials is answered with an error; and no other request is answered
\* with an error.
C17_EmptyIsNotError ==
    lk.pc = "done" =>
        /\ EndedEmpty(lk) => /\ lk.response.status = 200
                             /\ lk.response.buyers = <<>>
                             /\ lk.response.opportunities = <<>>
        /\ lk.failure \in {"store", "auth"} => lk.response.status = 500
        /\ lk.response.status = 500 => lk.failure \in {"store", "auth"}
        /\ lk.response.status \in {200, 500}

----------------------------------------------------------------------------
(* Startup and the opening of the files: part_017 lines 177-206, 126-127, 168 *)

\* the module's evaluation rejects with msg and the process ends
Abort(msg) ==
    /\ pc' = "fatal"
    /\ thrown' = msg
    /\ commits' = AllIdle
    /\ UNCHANGED <<cfg, ix, lk, fileVars, run, cutoff, hhVars, hdVars, windowVars, hBatchVars,
                   merchVars, lBatchVars, totalsVars, faults, store, solo, settled, previous,
                   found, setVars>>

\* lines 177-206: the three existence tests, the read of the key, and the start
\* of the header stream
Startup ==
    /\ pc = "boot"
    /\ IF cfg.files.key = "missing" THEN Abort("Service account key not found")
       ELSE IF cfg.files.hh = "missing" THEN Abort("Header CSV not found")
       ELSE IF cfg.files.hd = "missing" THEN Abort("Detail CSV not found")
       ELSE IF cfg.files.key = "unreadable" THEN Abort("readFileSync")
       ELSE /\ pc' = "hdr"
            /\ UNCHANGED <<cfg, ix, lk, fileVars, run, cutoff, hhVars, hdVars, windowVars,
                           hBatchVars, merchVars, lBatchVars, totalsVars, commits, faults,
                           store, solo, obsVars, setVars>>

\* the stream of the header file (line 127) emits an error, which rejects the
\* promise of streamParseCsv (line 168)
HeaderOpenFails ==
    /\ pc = "hdr"
    /\ cfg.files.hh = "unreadable"
    /\ Abort("createReadStream")

\* the same for the stream of the detail file, made at line 283
DetailOpenFails ==
    /\ pc = "line"
    /\ cfg.files.hd = "unreadable"
    /\ Abort("createReadStream")

\* One start of the importer over the files of Init, where the key or one of
\* the two files may be missing or unreadable
StartupFiles ==
    {f \in [key : FileStates, hh : FileStates, hd : FileStates] :
        Cardinality({n \in {"key", "hh", "hd"} : f[n] # "ok"}) <= 1}

InitStartup ==
    \E f \in StartupFiles :
        /\ StartWith([hhPool |-> CoreHeaderRows, hdPool |-> CoreDetailRows, files |-> f,
                      faults |-> MaxFaults, errors |-> {"UNAVAILABLE", "PERMISSION_DENIED"},
                      lostAcks |-> {FALSE}, record |-> FALSE, runs |-> 1,
                      stores |-> {NoDocs, LegacyStore}],
                     <<>>, <<>>, FALSE, "boot", IxOff)
        /\ lk = LkOff

NextStartup ==
    \/ Startup
    \/ HeaderOpenFails
    \/ DetailOpenFails
    \/ Next

SpecStartup == InitStartup /\ [][NextStartup]_vars

----------------------------------------------------------------------------
(* C18 *)

\* no write of the run is enqueued, in flight or committed
NothingWritten ==
    /\ store = found
    /\ headerBatch.writes = <<>> /\ lineBatch.writes = <<>> /\ totalsBatch.writes = <<>>
    /\ \A a \in Awaiters : commits[a].writes = <<>>
    /\ headersWritten = 0 /\ linesWritten = 0 /\ totalsUpdated = 0

\* C18 (configuration errors are fatal at startup): when the key, the header
\* file or the detail file is missing or cannot be read, the run writes
\* nothing, neither to a batch nor to the store, and goes no further than
\* its abort.
C18_FatalBeforeAnyWrite ==
    cfg.files # FilesOk => NothingWritten /\ pc \in {"boot", "hdr", "fatal"}

----------------------------------------------------------------------------
(* C19 *)

\* the columns of the header rows of the two files
HeaderColumns == DOMAIN HRow(<<>>, <<>>, <<>>, <<>>, <<>>, <<>>)

DetailColumns == DOMAIN DRow(<<>>, <<>>, <<>>, <<>>, <<>>)

\* the row has fewer or more fields than the file has columns: the parser
\* leaves the missing fields out, keeps the surplus under __parsed_extra, and
\* reports the row in results.errors
Malformed(r, columns) == DOMAIN r # columns

\* One run over files with well-formed rows (in window, before the cutoff,
\* without invoice number) and with rows that are too short or too long
ShapeHeaderRows ==
    { HRow(TA1,    DIn,  <<"C", "1">>, <<"7">>, <<"5">>, <<"1">>),
      HRow(TB,     DOld, <<"C", "1">>, <<"7">>, <<>>,    <<>>),
      HRow(TBlank, DIn,  <<"C", "1">>, <<"7">>, <<>>,    <<>>),
      [InvoiceNo |-> TC, InvoiceDate |-> DIn],
      [InvoiceNo |-> TAd1, InvoiceDate |-> DIn, CustomerNo |-> <<"C", "2">>,
       SalespersonNo |-> <<"7">>, FreightAmt |-> <<>>, DiscountAmt |-> <<>>,
       __parsed_extra |-> <<"x">>] }

ShapeDetailRows ==
    { DRow(TA1, <<"1">>, <<"X">>, <<"x">>, <<"1", "0", ".", "5", "0">>),
      DRow(TB,  <<"1">>, <<"X">>, <<>>,    <<"7">>),
      [InvoiceNo |-> TC, LineKey |-> <<"1">>, ItemCode |-> <<"X">>] }

InitShape == InitWith([hhPool |-> ShapeHeaderRows, hdPool |-> ShapeDetailRows, files |-> FilesOk,
                       faults |-> MaxFaults, errors |-> {"UNAVAILABLE", "PERMISSION_DENIED"},
                       lostAcks |-> {FALSE}, record |-> FALSE, runs |-> 1,
                       stores |-> {NoDocs}])

SpecShape == InitShape /\ [][Next]_vars

\* C19 (row-level errors are skipped and counted): no write is made from a
\* row that has fewer or more fields than the file has columns, and when a
\* pass has ended every row of the file has been read and has been counted
\* once, as written or as skipped.
C19_RowsCountedOnce ==
    /\ \A i \in headersSet : ~Malformed(hhFile[i], HeaderColumns)
    /\ \A i \in linesSet : ~Malformed(hdFile[i], DetailColumns)
    /\ HeaderPassEnded => /\ hhRowCount = Len(hhFile)
                          /\ hhRowCount = headersWritten + hhSkipped
    /\ LinePassEnded => /\ hdRowCount = Len(hdFile)
                        /\ hdRowCount = linesWritten + hdSkipped

----------------------------------------------------------------------------
(* C20 *)

D1345 == <<"1", "3", "/", "4", "5", "/", "2", "0", "2", "4">>
D0230 == <<"0", "2", "/", "3", "0", "/", "2", "0", "2", "4">>
D0010 == <<"0", "0", "/", "1", "0", "/", "2", "0", "2", "4">>
DShort == <<"6", "/", "1", "/", "2", "0", "2", "4">>
DYear2 == <<"0", "6", "/", "0", "1", "/", "2", "4">>

\* date texts: a date of the window, month 13 with day 45, 30 February, month
\* 0, year-month-day, one digit for month and day, two digits for the year,
\* padded with blanks, and none
DateTexts ==
    {DIn, D1345, D0230, D0010, DIso, DShort, DYear2, <<" ">> \o DIn \o <<" ">>, <<>>, Undefined}

\* the text is month/day/year in digits, with a month of the year and a day
\* of that month
ValidUSDate(t) ==
    LET ps == SplitOn(cleanStr(t), "/")
    IN /\ Len(ps) = 3
       /\ Len(ps[1]) \in {1, 2} /\ AllDigits(ps[1])
       /\ Len(ps[2]) \in {1, 2} /\ AllDigits(ps[2])
       /\ Len(ps[3]) = 4 /\ AllDigits(ps[3])
       /\ DigitsVal(ps[1]) \in 1..12
       /\ DigitsVal(ps[2]) \in 1..MonthLen(DigitsVal(ps[3]), DigitsVal(ps[1]) - 1)

DateTextOf(r) == Coalesce(ciGet(r, "InvoiceDate"), ciGet(r, "Date"))

\* One run over header files whose rows carry the date texts, each under an
\* invoice number of its own
DatesHeaderRows ==
    { HRow(TA1,     DIn,    <<"C", "1">>, <<"7">>, <<>>, <<>>),
      HRow(TB,      D1345,  <<"C", "1">>, <<"7">>, <<>>, <<>>),
      HRow(TC,      D0230,  <<"C", "1">>, <<"7">>, <<>>, <<>>),
      HRow(<<"D">>, D0010,  <<"C", "1">>, <<"7">>, <<>>, <<>>),
      HRow(<<"E">>, DIso,   <<"C", "1">>, <<"7">>, <<>>, <<>>),
      HRow(<<"F">>, DYear2, <<"C", "1">>, <<"7">>, <<>>, <<>>) }

DatesDetailRows ==
    { DRow(TA1, <<"1">>, <<"X">>, <<"x">>, <<"1">>),
      DRow(TB,  <<"1">>, <<"X">>, <<"x">>, <<"2">>) }

InitDates == InitWith([hhPool |-> DatesHeaderRows, hdPool |-> DatesDetailRows, files |-> FilesOk,
                       faults |-> MaxFaults, errors |-> {"UNAVAILABLE", "PERMISSION_DENIED"},
                       lostAcks |-> {FALSE}, record |-> FALSE, runs |-> 1,
                       stores |-> {NoDocs}])

SpecDates == InitDates /\ [][Next]_vars

\* C20 (dates of one form only): an invoice number is in the in-window set
\* only if a header row of it read so far carries a date text that is a
\* valid month/day/year date, and parseUSDate gives a date for no other text.
C20_OnlyValidDatesAdmitted ==
    /\ \A no \in inRangeInvoiceNos :
           \E i \in 1..hhRowCount :
               KeyOf(hhFile[i]) = no /\ ValidUSDate(DateTextOf(hhFile[i]))
    /\ \A t \in DateTexts : ~parseUSDate(t).isNull => ValidUSDate(t)

----------------------------------------------------------------------------
(* C21 *)

\* owner codes as the files and the requests carry them: digits short of the
\* width, at the width and past it, letters, letters with a digit, padded
\* with blanks, and none
OwnerTexts ==
    { <<"7">>, <<"0", "0", "0", "7">>, <<"1", "2", "3", "4", "5">>, <<"R", "E", "P">>,
      <<"A", "7">>, <<" ", "7", " ">>, <<"H", "O", "U", "S", "E">>, <<>> }

OWNER_WIDTH == 4

\* a text of digits padded with zeros to the width, any other text as it is
PadIdentifier(raw) ==
    LET s == cleanStr(raw)
    IN IF s # <<>> /\ AllDigits(s) THEN PadStart(s, OWNER_WIDTH) ELSE s

\* One run over header files whose rows carry the owner codes, each under an
\* invoice number of its own
OwnerHeaderRows ==
    { HRow(TA1,     DIn, <<"C", "1">>, <<"7">>,                <<>>, <<>>),
      HRow(TB,      DIn, <<"C", "1">>, <<"0", "0", "0", "7">>, <<>>, <<>>),
      HRow(TC,      DIn, <<"C", "1">>, <<"R", "E", "P">>,      <<>>, <<>>),
      HRow(<<"D">>, DIn, <<"C", "1">>, <<"A", "7">>,           <<>>, <<>>) }

OwnerDetailRows ==
    { DRow(TA1, <<"1">>, <<"X">>, <<"x">>, <<"1">>),
      DRow(TC,  <<"1">>, <<"X">>, <<"x">>, <<"2">>) }

InitOwners == InitWith([hhPool |-> OwnerHeaderRows, hdPool |-> OwnerDetailRows, files |-> FilesOk,
                        faults |-> MaxFaults, errors |-> {"UNAVAILABLE", "PERMISSION_DENIED"},
                        lostAcks |-> {FALSE}, record |-> FALSE, runs |-> 1,
                        stores |-> {NoDocs}])

SpecOwners == InitOwners /\ [][Next]_vars

\* C21 (owner codes): the importer, the index builder and the lookup service
\* pad an owner code of digits with zeros to width 4 and leave any other code
\* as it is, so that 7 and 0007 give 0007; normalising a normalised code
\* changes nothing; and every header document of the run holds the code of
\* its row normalised in this way.
C21_OwnerCodes ==
    /\ \A ref \in DOMAIN store :
           (ref.coll = "invoices" /\ ref.line = <<>> /\ WrittenNow(ref)) =>
               store[ref].salespersonNo
                   = PadIdentifier(ciGet(hhFile[store[ref].rowIndex], "SalespersonNo"))
    /\ \A t \in OwnerTexts :
           /\ PadOwner(t) = PadIdentifier(t)
           /\ padSalesperson(t) = PadIdentifier(t)
           /\ normRep(t) = PadIdentifier(t)
           /\ PadOwner(PadOwner(t)) = PadOwner(t)
           /\ padSalesperson(padSalesperson(t)) = padSalesperson(t)
           /\ normRep(normRep(t)) = normRep(t)

----------------------------------------------------------------------------
(* C22 *)

\* the document holds the fields of a header row, written by the present run
HeaderWrittenNow(ref) ==
    /\ ref \in DOMAIN store
    /\ "importedAt" \in DOMAIN store[ref] /\ store[ref].importedAt = run
    /\ "customerNo" \in DOMAIN store[ref]
    /\ "rowIndex" \in DOMAIN store[ref] /\ store[ref].rowIndex \in 1..hhRowCount

\* C22 (in-window keys have headers): when a run has completed, every invoice
\* number of the in-window set has a header document that this run wrote
\* from a header row, and so has every detail document of this run.
C22_InWindowKeysHaveHeaders ==
    RunComplete =>
        /\ \A no \in inRangeInvoiceNos : HeaderWrittenNow(HeaderRef(normalizeDocId(no)))
        /\ \A ref \in DOMAIN store :
               (ref.line # <<>> /\ WrittenNow(ref)) => HeaderWrittenNow(HeaderRef(ref.doc))

----------------------------------------------------------------------------
(* C23 *)

\* the two detail rows name the same line: the same invoice number and the
\* same line key, which is not empty
SameLine(r, q) ==
    /\ KeyOf(r) = KeyOf(q)
    /\ cleanStr(LineKeyOf(r)) = cleanStr(LineKeyOf(q))
    /\ cleanStr(LineKeyOf(r)) # <<>>

\* C23 (distinct paths for distinct rows): two detail rows of one pass whose
\* writes were added to a batch go to different documents, unless they are
\* rows of the same line (same invoice number, same line key).
C23_DistinctLinePaths ==
    \A i, j \in linesSet :
        (i # j /\ ~SameLine(hdFile[i], hdFile[j])) => LineDocOf(i) # LineDocOf(j)

----------------------------------------------------------------------------
(* C24 *)

\* One run over header files in which invoice A/1 comes with two accounts
\* and invoice B with one
DupHeaderRows ==
    { HRow(TA1, DIn, <<"C", "1">>, <<"7">>, <<"5">>, <<>>),
      HRow(TA1, DIn, <<"C", "2">>, <<"7">>, <<"2">>, <<>>),
      HRow(TB,  DIn, <<"C", "3">>, <<"7">>, <<>>,    <<>>) }

DupDetailRows ==
    { DRow(TA1, <<"1">>, <<"X">>, <<"x">>, <<"1">>),
      DRow(TB,  <<"1">>, <<"X">>, <<"x">>, <<"2">>) }

InitDup == InitWith([hhPool |-> DupHeaderRows, hdPool |-> DupDetailRows, files |-> FilesOk,
                     faults |-> MaxFaults, errors |-> {"UNAVAILABLE", "PERMISSION_DENIED"},
                     lostAcks |-> {FALSE}, record |-> FALSE, runs |-> 1,
                     stores |-> {NoDocs}])

SpecDup == InitDup /\ [][Next]_vars

\* the last row of the header file with the invoice number no that passes
\* the filters of the header pass
LastHeaderRowOf(no) ==
    CHOOSE i \in 1..Len(hhFile) :
        /\ KeyOf(hhFile[i]) = no /\ HeaderPasses(hhFile[i])
        /\ \A j \in (i + 1)..Len(hhFile) : ~(KeyOf(hhFile[j]) = no /\ HeaderPasses(hhFile[j]))

\* C24 (the later row wins): when a run has completed, the header document
\* of an invoice number that two or more accepted header rows share holds
\* the fields of the last of these rows.
C24_LaterRowWins ==
    RunComplete =>
        \A no \in inRangeInvoiceNos :
            LET last == LastHeaderRowOf(no)
                ref  == HeaderRef(normalizeDocId(no))
            IN (\E i \in 1..(last - 1) : KeyOf(hhFile[i]) = no /\ HeaderPasses(hhFile[i])) =>
                   /\ ref \in DOMAIN store
                   /\ store[ref].rowIndex = last
                   /\ store[ref].customerNo
                          = HeaderPayload(hhFile[last], no, HeaderDateOf(hhFile[last]), last).customerNo
                   /\ store[ref].freightAmt
                          = HeaderPayload(hhFile[last], no, HeaderDateOf(hhFile[last]), last).freightAmt

----------------------------------------------------------------------------
(* C25 *)

\* the value held for the invoice number in a map of the header pass, or 0
HeldFor(map, no) == IF no \in DOMAIN map THEN map[no] ELSE 0

\* C25 (finalizer totals): when a run has completed, the header document of
\* every invoice number with an accumulated total holds that total as
\* merchTotal and merchTotal + freight - discount as invoiceTotalComputed,
\* with the freight and discount held in memory for the invoice number, and
\* these are the freightAmt and discountAmt of the document.
C25_FinalizerTotals ==
    RunComplete =>
        \A no \in DOMAIN merchTotals :
            LET ref == HeaderRef(normalizeDocId(no))
                Holds(f, v) == f \in DOMAIN store[ref] /\ store[ref][f] = v
            IN /\ ref \in DOMAIN store
               /\ Holds("merchTotal", merchTotals[no])
               /\ Holds("invoiceTotalComputed",
                        merchTotals[no] + HeldFor(headerFreight, no)
                            - HeldFor(headerDiscount, no))
               /\ Holds("freightAmt", HeldFor(headerFreight, no))
               /\ Holds("discountAmt", HeldFor(headerDiscount, no))

----------------------------------------------------------------------------
(* C26 *)

\* C26 (rolling window): when an index build has completed, every account
\* listed in an entry of the stored index has, in the files of the build, a
\* line of the entry's item on an in-window invoice of that account under
\* the entry's owner; no account survives from an earlier build without one.
C26_NoStaleAccount ==
    ix.pc = "done" =>
        LET join == IndexJoin
        IN \A ref \in DOMAIN store :
               ref.coll = IndexRef(<<>>).coll =>
                   \A n \in 1..Len(store[ref].customerNos) :
                       \E i \in DOMAIN join :
                           /\ PairDocOf(join[i].pair) = ref
                           /\ join[i].account = store[ref].customerNos[n]

----------------------------------------------------------------------------
(* C27 *)

IsPrefixOf(p, t) == Len(p) <= Len(t) /\ SubSeq(t, 1, Len(p)) = p

\* the lines of the item: those with the item code, or, when there is none,
\* those whose item code begins with it
JoinLines(docs, itemCode) ==
    LET exact == {r \in DOMAIN docs : IsLine(r) /\ Field(docs[r], "itemCode") = itemCode}
    IN IF exact # {} THEN exact
       ELSE {r \in DOMAIN docs :
                /\ IsLine(r)
                /\ Field(docs[r], "itemCode") # Undefined
                /\ IsPrefixOf(itemCode, docs[r].itemCode)}

\* the accounts on the headers of these lines: headers that exist and carry
\* an account
JoinAccounts(docs, itemCode) ==
    {Field(docs[HeaderRef(r.doc)], "customerNo") :
        r \in {q \in JoinLines(docs, itemCode) :
                  /\ HeaderRef(q.doc) \in DOMAIN docs
                  /\ Field(docs[HeaderRef(q.doc)], "customerNo") \notin {Undefined, <<>>}}}

\* the line query, the invoice ids and the account ids stayed below their caps
BelowCaps(l) ==
    /\ Len(l.linesSnap) < LINES_LIMIT
    /\ Len(l.invoiceIdList) <= INVOICES_LIMIT
    /\ Len(l.buyerIds) <= BUYERS_LIMIT

\* C27 (buyers by the join): a request with an item code that meets no
\* failure of the store or of its credentials is answered without an error;
\* every buyer of the answer is an account on an existing header of a line
\* of the item (lines with the item code, or, when there is none, lines
\* whose item code begins with it); and, below the caps, every such account
\* of the requested owner that has a customer document is a buyer.
C27_BuyersByJoin ==
    (lk.pc = "done" /\ lk.itemCode # <<>> /\ lk.failure \notin {"store", "auth"}) =>
        LET join   == JoinAccounts(store, lk.itemCode)
            buyers == {lk.response.buyers[n].customerNo : n \in 1..Len(lk.response.buyers)}
            Mine(a) == /\ CustomerRef(a) \in DOMAIN store
                       /\ lk.repNo # <<>> =>
                              normRep(BuyerOf(store, CustomerRef(a)).salespersonNo) = lk.repNo
        IN /\ lk.response.status = 200
           /\ buyers \subseteq join
           /\ (BelowCaps(lk) /\ ~lk.onePerTier) => {a \in join : Mine(a)} \subseteq buyers

----------------------------------------------------------------------------
(* C28 *)

\* One run over a header file of the in-window invoice A/1 and detail files
\* with lines of A/1: with an amount, with an item and an amount that is no
\* number, with a description only and such an amount, and with neither item
\* nor description
AmountHeaderRows == { HRow(TA1, DIn, <<"C", "1">>, <<"7">>, <<>>, <<>>) }

AmountDetailRows ==
    { DRow(TA1, <<"1">>, <<"X">>, <<"x">>, <<"1", "0", ".", "5", "0">>),
      DRow(TA1, <<"2">>, <<"Y">>, <<>>,    <<"n", "/", "a">>),
      DRow(TA1, <<"3">>, <<>>,    <<"d">>, <<"a", "b", "c">>),
      DRow(TA1, <<"4">>, <<>>,    <<" ">>, <<"4">>) }

InitAmounts == InitWith([hhPool |-> AmountHeaderRows, hdPool |-> AmountDetailRows,
                         files |-> FilesOk,
                         faults |-> MaxFaults, errors |-> {"UNAVAILABLE", "PERMISSION_DENIED"},
                         lostAcks |-> {FALSE}, record |-> FALSE, runs |-> 1,
                         stores |-> {NoDocs}])

SpecAmounts == InitAmounts /\ [][Next]_vars

\* the amount of a detail row in hundredths: the number its text gives once
\* "$" and "," are taken out, and 0 for a text that gives none
AmountOf(r) ==
    LET t == ReplaceAll(ReplaceAll(cleanStr(ciGet(r, "ExtensionAmt")), ",", <<>>), "$", <<>>)
    IN IF t # <<>> /\ IsNumber(t) THEN NumberVal(t) ELSE 0

\* the detail pass takes its next row
LineRowTaken == pc = "line" /\ hdRowCount' = hdRowCount + 1

\* C28 (unparsable amounts and noise): a detail row whose invoice is in the
\* window and that has an item code or a description is added to the batch
\* and adds its amount to the total of its invoice, 0 when the amount is no
\* number; a row with neither item code nor description, or whose invoice
\* is not in the window, is not added and changes no total.
C28_AmountsAndNoise ==
    [][LineRowTaken =>
          LET r  == hdFile'[hdRowCount']
              no == KeyOf(r)
          IN IF ParentInRange(no, inRangeInvoiceNos) /\ ~IsNoise(r)
             THEN /\ hdRowCount' \in linesSet'
                  /\ no \in DOMAIN merchTotals'
                  /\ merchTotals'[no] = HeldFor(merchTotals, no) + AmountOf(r)
             ELSE /\ linesSet' = linesSet
                  /\ merchTotals' = merchTotals]_vars

----------------------------------------------------------------------------
(* C29 *)

\* the account passes the owner filter of the buyers list (lines 279-281)
PassesOwnerFilter(docs, r, repNo) == OwnedBy(<<BuyerOf(docs, r)>>, repNo) # <<>>

\* the account is among the results of the primary-owner query of the
\* opportunity scan (line 309)
InPrimaryQuery(docs, r, repNo) ==
    LET q1 == CustomersWhere(docs, "salespersonNo", repNo)
    IN \E n \in 1..Len(q1) : q1[n] = r

\* C29: for every stored account and every requested owner code, the account
\* passes the owner filter of the buyers list exactly when the primary-owner
\* query of the opportunity scan returns it.
C29_OwnerFilterMatchesScan ==
    \A code \in OwnerTexts \cup {ParamOr(lk.req.salespersonNo, <<>>)} :
        LET repNo == normRep(code)
        IN repNo # <<>> =>
              \A r \in {c \in DOMAIN store : c.coll = "customers"} :
                  PassesOwnerFilter(store, r, repNo) <=> InPrimaryQuery(store, r, repNo)

----------------------------------------------------------------------------
(* C30 *)

\* The importer, then the index builder over the files the importer has read,
\* then a request to the lookup service, over a store that holds the accounts
\* of LookupAccounts. Invoice A-1 is sold to X (owner 0007) and invoice B to U
\* (owner 0009, second owner 0007), both under owner 7; the lines name item K1
\* in upper and in lower case.
ServeHeaderRows ==
    { HRow(TAd1, DIn, <<"X">>, <<"7">>, <<>>, <<>>),
      HRow(TB,   DIn, <<"U">>, <<"7">>, <<>>, <<>>) }

ServeDetailRows ==
    { DRow(TAd1, <<"1">>, K1, <<>>, <<"1">>),
      DRow(TAd1, <<"2">>, <<"k", "1">>, <<>>, <<"1">>),
      DRow(TB,   <<"1">>, K1, <<>>, <<"1">>) }

ServeRequests ==
    [itemCode      : {K1, <<"K">>},
     onePerTier    : {Undefined},
     selectedTier  : {Undefined, <<"a">>},
     oppCount      : {Undefined},
     salespersonNo : {<<"7">>},
     env           : {TRUE}]

InitServe ==
    InitWith([hhPool |-> ServeHeaderRows, hdPool |-> ServeDetailRows, files |-> FilesOk,
              faults |-> MaxFaults,
              errors |-> {"ABORTED", "UNAVAILABLE", "PERMISSION_DENIED"},
              lostAcks |-> {FALSE}, record |-> FALSE, runs |-> 1,
              stores |-> {DocsOf(LookupAccounts)}])

\* the importer has completed and its process has ended; the index builder is
\* started over the same two files
IndexStarts ==
    /\ RunComplete
    /\ ix.pc = "off"
    /\ lk.pc = "off"
    /\ pc' = "off"
    /\ ix' = IxStart
    /\ UNCHANGED <<cfg, fileVars, run, cutoff, hhVars, hdVars, windowVars, hBatchVars,
                   merchVars, lBatchVars, totalsVars, commits, faults, store, solo,
                   obsVars, setVars, lk>>

\* the index build has completed; a request reaches the lookup service
LookupStarts ==
    /\ ix.pc = "done"
    /\ lk.pc = "off"
    /\ \E req \in ServeRequests : lk' = Request(req)
    /\ UNCHANGED outsideLookup

NextServe ==
    \/ Next
    \/ IndexStarts
    \/ NextIndex
    \/ LookupStarts
    \/ NextLookup

SpecServe == InitServe /\ [][NextServe]_vars

\* the accounts listed by the index entry of the pair (item code, owner code)
IndexedAccounts(docs, itemCode, repNo) ==
    LET ref == PairDocOf(<<itemCode, repNo>>)
    IN IF ref \in DOMAIN docs
       THEN {docs[ref].customerNos[n] : n \in 1..Len(docs[ref].customerNos)}
       ELSE {}

\* the accounts of the buyers of the response
BuyerAccounts(response) == {response.buyers[n].customerNo : n \in 1..Len(response.buyers)}

\* C30: when the importer and then the index builder have run over the same
\* header and detail files, the accounts listed by the index entry of a pair
\* (item code, owner code) are the accounts of the buyers the lookup service
\* answers for that item code and owner code.
C30_IndexMatchesLookup ==
    (ix.pc = "done" /\ Answered) =>
        IndexedAccounts(store, lk.itemCode, lk.repNo) = BuyerAccounts(lk.response)

============================================================================
